---- MODULE Spec2Model ----
(***************************************************************************)
(* Elehant BLE meter integration: the advertisement decoder, the MAC       *)
(* identity extractor and the device-history scanner                       *)
(* (custom_components/elehantmi/scanner.py), as a state machine.           *)
(*                                                                         *)
(* Python values are modelled as follows:                                  *)
(*   str    a sequence of one-character strings                            *)
(*   bytes  a sequence of integers 0..255                                  *)
(*   dict   a function from its keys to its values                         *)
(*   list   a sequence; a list of dicts holds references (see Deref)       *)
(*   None   the record None                                                *)
(*   float  time.time() is counted in whole seconds; raw/100.0 is kept as  *)
(*          the exact fraction [num, den]                                   *)
(***************************************************************************)
EXTENDS Integers, Sequences, FiniteSets, TLC

None == [py_none |-> TRUE]

(***************************************************************************)
(* Program constants (const.py)                                            *)
(***************************************************************************)
DEVICE_TYPE_GAS == "gas"
DEVICE_TYPE_WATER == "water"
ELEHANT_MARKER == 128
SEPARATOR == 127
MAC_MODEL_IDX == 1
MAC_TYPE_IDX == 2
GAS_MODELS ==
    {1, 2, 3, 4, 5, 16, 17, 18, 19, 20, 32, 33, 34, 35, 36, 48, 49, 50, 51, 52,
     64, 65, 66, 67, 68, 80, 81, 82, 83, 84}
WATER_MODELS == {1, 2, 3, 4, 5, 6}

\* scanner.py imports MAC_PREFIX from const.py, which defines only
\* MAC_PREFIXES = {"B0:", "B1:"}.  The model takes the prefix that
\* _detection_callback itself tests before it calls extract_info_from_mac.
MAC_PREFIX == <<"B", "0", ":">>

MANUFACTURER_ID == 65535
SecondsPerHour == 3600

(***************************************************************************)
(* str helpers                                                             *)
(***************************************************************************)
\* str.startswith
StartsWith(s, p) ==
    /\ Len(s) >= Len(p)
    /\ \A i \in 1..Len(p) : s[i] = p[i]

\* s[a:b] on 0-based Python indices, clipped to the length like a slice
Slice(s, a, b) ==
    LET hi == IF b < Len(s) THEN b ELSE Len(s)
    IN  IF a >= hi THEN << >> ELSE [i \in 1..(hi - a) |-> s[a + i]]

\* str.split(":")
RECURSIVE SplitFrom(_, _, _)
SplitFrom(s, i, cur) ==
    IF i > Len(s) THEN <<cur>>
    ELSE IF s[i] = ":" THEN <<cur>> \o SplitFrom(s, i + 1, << >>)
    ELSE SplitFrom(s, i + 1, Append(cur, s[i]))

Split(s) == SplitFrom(s, 1, << >>)

\* The digit part of an int(x) literal of base 10, as DigitsValue below
RECURSIVE DecimalDigitsValue(_, _, _)
DecimalDigitsValue(s, acc, prevDigit) ==
    IF Len(s) = 0 THEN [ok |-> prevDigit, val |-> acc]
    ELSE IF s[1] = "_"
         THEN (IF prevDigit THEN DecimalDigitsValue(Tail(s), acc, FALSE)
               ELSE [ok |-> FALSE, val |-> 0])
    ELSE IF s[1] \in {"0", "1", "2", "3", "4", "5", "6", "7", "8", "9"}
         THEN DecimalDigitsValue(Tail(s),
                  acc * 10 + (CHOOSE d \in 0..9 : ToString(d) = s[1]), TRUE)
    ELSE [ok |-> FALSE, val |-> 0]

\* Mutant: int(s), base 10, in the place of int(s, 16)
IntBase10(s) ==
    LET t == IF Len(s) > 0 /\ s[1] \in {"+", "-"} THEN Tail(s) ELSE s
        r == DecimalDigitsValue(t, 0, FALSE)
    IN  IF r.ok /\ Len(s) > 0 /\ s[1] = "-"
        THEN [ok |-> TRUE, val |-> 0 - r.val] ELSE r

HexDigits ==
    {"0", "1", "2", "3", "4", "5", "6", "7", "8", "9",
     "a", "b", "c", "d", "e", "f", "A", "B", "C", "D", "E", "F"}

HexDigitValue(c) ==
    CASE c = "0" -> 0 [] c = "1" -> 1 [] c = "2" -> 2 [] c = "3" -> 3
      [] c = "4" -> 4 [] c = "5" -> 5 [] c = "6" -> 6 [] c = "7" -> 7
      [] c = "8" -> 8 [] c = "9" -> 9
      [] c \in {"a", "A"} -> 10 [] c \in {"b", "B"} -> 11
      [] c \in {"c", "C"} -> 12 [] c \in {"d", "D"} -> 13
      [] c \in {"e", "E"} -> 14 [] c \in {"f", "F"} -> 15

Whitespace == {" ", "\t", "\n", "\r"}

RECURSIVE LStrip(_)
LStrip(s) ==
    IF Len(s) > 0 /\ s[1] \in Whitespace THEN LStrip(Tail(s)) ELSE s

RECURSIVE RStrip(_)
RStrip(s) ==
    IF Len(s) > 0 /\ s[Len(s)] \in Whitespace
    THEN RStrip(SubSeq(s, 1, Len(s) - 1)) ELSE s

\* The digit part of an int() literal: hex digits, single underscores
\* allowed between digits only.  The result is [ok, val]; ok = FALSE stands
\* for the ValueError int() raises.
RECURSIVE DigitsValue(_, _, _)
DigitsValue(s, acc, prevDigit) ==
    IF Len(s) = 0 THEN [ok |-> prevDigit, val |-> acc]
    ELSE IF s[1] = "_"
         THEN (IF prevDigit THEN DigitsValue(Tail(s), acc, FALSE)
               ELSE [ok |-> FALSE, val |-> 0])
    ELSE IF s[1] \in HexDigits
         THEN DigitsValue(Tail(s), acc * 16 + HexDigitValue(s[1]), TRUE)
    ELSE [ok |-> FALSE, val |-> 0]

\* int(s, 16): surrounding whitespace, an optional sign, an optional 0x/0X
\* prefix (which may be followed by one underscore), then the digits.
IntBase16(s) ==
    LET t == RStrip(LStrip(s))
        neg == Len(t) > 0 /\ t[1] = "-"
        u == IF Len(t) > 0 /\ t[1] \in {"+", "-"} THEN Tail(t) ELSE t
        pre == Len(u) >= 2 /\ u[1] = "0" /\ u[2] \in {"x", "X"}
        d == IF pre THEN Slice(u, 2, Len(u)) ELSE u
        body == IF pre /\ Len(d) > 0 /\ d[1] = "_" THEN Tail(d) ELSE d
        r == DigitsValue(body, 0, FALSE)
    IN  IF r.ok /\ neg THEN [ok |-> TRUE, val |-> 0 - r.val] ELSE r

(***************************************************************************)
(* extract_info_from_mac                                                   *)
(***************************************************************************)
\* Mutant: the prefix test is missing
extract_info_from_mac_any_prefix(mac) ==
    LET parts == Split(mac) IN
    IF Len(parts) # 6 THEN None
    ELSE
    LET model == IntBase16(parts[MAC_MODEL_IDX + 1])
        type_byte == IntBase16(parts[MAC_TYPE_IDX + 1])
        serial == IntBase16(parts[4] \o parts[5] \o parts[6])
    IN  IF ~model.ok \/ ~type_byte.ok \/ ~serial.ok THEN None
        ELSE [serial |-> serial.val,
              model |-> model.val,
              type_byte |-> type_byte.val,
              device_type |->
                  IF model.val \in GAS_MODELS THEN DEVICE_TYPE_GAS
                  ELSE IF model.val \in WATER_MODELS THEN DEVICE_TYPE_WATER
                  ELSE IF type_byte.val \in {2, 3, 4} THEN DEVICE_TYPE_WATER
                  ELSE DEVICE_TYPE_GAS,
              mac |-> mac]

\* Mutant: the water table is consulted before the gas table
extract_info_from_mac_water_first(mac) ==
    IF Len(mac) = 0 \/ ~StartsWith(mac, MAC_PREFIX) THEN None
    ELSE
    LET parts == Split(mac) IN
    IF Len(parts) # 6 THEN None
    ELSE
    LET model == IntBase16(parts[MAC_MODEL_IDX + 1])
        type_byte == IntBase16(parts[MAC_TYPE_IDX + 1])
        serial == IntBase16(parts[4] \o parts[5] \o parts[6])
    IN  IF ~model.ok \/ ~type_byte.ok \/ ~serial.ok THEN None
        ELSE [serial |-> serial.val,
              model |-> model.val,
              type_byte |-> type_byte.val,
              device_type |->
                  IF model.val \in WATER_MODELS THEN DEVICE_TYPE_WATER
                  ELSE IF model.val \in GAS_MODELS THEN DEVICE_TYPE_GAS
                  ELSE IF type_byte.val \in {2, 3, 4} THEN DEVICE_TYPE_WATER
                  ELSE DEVICE_TYPE_GAS,
              mac |-> mac]

\* extract_info_from_mac(mac): the identity dict, or None
extract_info_from_mac(mac) ==
    IF Len(mac) = 0 \/ ~StartsWith(mac, MAC_PREFIX) THEN None
    ELSE
    LET parts == Split(mac) IN
    IF Len(parts) # 6 THEN None
    ELSE
    LET model == IntBase16(parts[MAC_MODEL_IDX + 1])
        type_byte == IntBase16(parts[MAC_TYPE_IDX + 1])
        serial == IntBase16(parts[4] \o parts[5] \o parts[6])
    IN  \* except (ValueError, IndexError): return None
        IF ~model.ok \/ ~type_byte.ok \/ ~serial.ok THEN None
        ELSE [serial |-> serial.val,
              model |-> model.val,
              type_byte |-> type_byte.val,
              device_type |->
                  IF model.val \in GAS_MODELS THEN DEVICE_TYPE_GAS
                  ELSE IF model.val \in WATER_MODELS THEN DEVICE_TYPE_WATER
                  ELSE IF type_byte.val \in {2, 3, 4} THEN DEVICE_TYPE_WATER
                  ELSE DEVICE_TYPE_GAS,
              mac |-> mac]

(***************************************************************************)
(* parse_meter_data                                                        *)
(***************************************************************************)
\* Mutant: int.from_bytes(b, byteorder="big")
RECURSIVE FromBytesBig(_)
FromBytesBig(b) ==
    IF Len(b) = 0 THEN 0 ELSE b[Len(b)] + 256 * FromBytesBig(SubSeq(b, 1, Len(b) - 1))

\* int.from_bytes(b, byteorder="little")
RECURSIVE FromBytesLittle(_)
FromBytesLittle(b) ==
    IF Len(b) = 0 THEN 0 ELSE b[1] + 256 * FromBytesLittle(Tail(b))

\* int.from_bytes(b, byteorder="little") of four bytes.  A Python int has no
\* upper limit; the integers of the model checker end at 2^31 - 1, so a
\* 32-bit value is kept as its two 16-bit halves, hi * 65536 + lo.
FromBytesLittle32(b) ==
    [hi |-> FromBytesLittle(Slice(b, 2, 4)), lo |-> FromBytesLittle(Slice(b, 0, 2))]

\* a >= b on two such values
WideGeq(a, b) == a.hi > b.hi \/ (a.hi = b.hi /\ a.lo >= b.lo)

HexChar(n) ==
    <<"0", "1", "2", "3", "4", "5", "6", "7", "8", "9",
      "a", "b", "c", "d", "e", "f">>[n + 1]

\* bytes.hex()
RECURSIVE BytesHex(_)
BytesHex(b) ==
    IF Len(b) = 0 THEN << >>
    ELSE <<HexChar(b[1] \div 16), HexChar(b[1] % 16)>> \o BytesHex(Tail(b))

\* data[i] on a 0-based index
At(data, i) == data[i + 1]

\* The dict parse_meter_data returns for a payload it accepts
FieldsAt(data, offset) ==
    [serial |-> FromBytesLittle(Slice(data, offset + 6, offset + 9)),
     value |-> FromBytesLittle32(Slice(data, offset + 9, offset + 13)),
     temperature |->
         [num |-> FromBytesLittle(Slice(data, offset + 14, offset + 16)),
          den |-> 100],
     sequence |-> At(data, offset + 1),
     raw_data |-> BytesHex(data)]

\* Mutant: the length test only asks for the 17 bytes of a frame
parse_meter_data_min_length(manufacturer_data) ==
    IF DOMAIN manufacturer_data = {} THEN None
    ELSE IF MANUFACTURER_ID \notin DOMAIN manufacturer_data THEN None
    ELSE
    LET data == manufacturer_data[MANUFACTURER_ID] IN
    IF Len(data) < 17 THEN None
    ELSE IF Len(data) = 21 /\ ~(/\ At(data, 0) = 20 /\ At(data, 1) = 255
                                /\ At(data, 2) = 255 /\ At(data, 3) = 255)
         THEN None
    ELSE
    LET offset == IF Len(data) = 21 THEN 4 ELSE 0 IN
    IF At(data, offset) # ELEHANT_MARKER THEN None
    ELSE IF At(data, offset + 13) # SEPARATOR THEN None
    ELSE FieldsAt(data, offset)

\* Mutant: 21 bytes without the 14 FF FF FF tag are read as a frame at
\* offset 0
parse_meter_data_untagged(manufacturer_data) ==
    IF DOMAIN manufacturer_data = {} THEN None
    ELSE IF MANUFACTURER_ID \notin DOMAIN manufacturer_data THEN None
    ELSE
    LET data == manufacturer_data[MANUFACTURER_ID] IN
    IF Len(data) = 0 THEN None
    ELSE IF Len(data) \notin {17, 21} THEN None
    ELSE
    LET offset == IF Len(data) = 21 /\ At(data, 0) = 20 /\ At(data, 1) = 255
                      /\ At(data, 2) = 255 /\ At(data, 3) = 255
                  THEN 4 ELSE 0
    IN
    IF At(data, offset) # ELEHANT_MARKER THEN None
    ELSE IF At(data, offset + 13) # SEPARATOR THEN None
    ELSE FieldsAt(data, offset)

\* Mutant: the separator is not tested
parse_meter_data_no_separator(manufacturer_data) ==
    IF DOMAIN manufacturer_data = {} THEN None
    ELSE IF MANUFACTURER_ID \notin DOMAIN manufacturer_data THEN None
    ELSE
    LET data == manufacturer_data[MANUFACTURER_ID] IN
    IF Len(data) = 0 THEN None
    ELSE IF Len(data) \notin {17, 21} THEN None
    ELSE IF Len(data) = 21 /\ ~(/\ At(data, 0) = 20 /\ At(data, 1) = 255
                                /\ At(data, 2) = 255 /\ At(data, 3) = 255)
         THEN None
    ELSE
    LET offset == IF Len(data) = 21 THEN 4 ELSE 0 IN
    IF At(data, offset) # ELEHANT_MARKER THEN None
    ELSE FieldsAt(data, offset)

\* One evaluation of data[index]; guarded when it is inside the try block
IndexRead(index, guarded) == [index |-> index, guarded |-> guarded]

\* The subscripts the header test evaluates: the `and` chain stops at the
\* first byte that differs
RECURSIVE HeaderReads(_, _)
HeaderReads(data, i) ==
    IF i > 3 THEN << >>
    ELSE <<IndexRead(i, FALSE)>>
         \o (IF i < Len(data) /\ data[i + 1] = <<20, 255, 255, 255>>[i + 1]
             THEN HeaderReads(data, i + 1) ELSE << >>)

\* Does the header test find 14 FF FF FF?
HasHeader(data) ==
    /\ Len(data) >= 4
    /\ \A i \in 1..4 : data[i] = <<20, 255, 255, 255>>[i]

\* Mutant: no length is tested, the offset is 4 behind a header and 0
\* otherwise
IndexReadsUnchecked(data) ==
    IF Len(data) = 0 THEN << >>
    ELSE
    LET offset == IF HasHeader(data) THEN 4 ELSE 0 IN
    HeaderReads(data, 0)
    \o <<IndexRead(offset, FALSE)>>
    \o (IF offset < Len(data) /\ data[offset + 1] = ELEHANT_MARKER
        THEN <<IndexRead(offset + 13, FALSE)>>
             \o (IF offset + 13 < Len(data) /\ data[offset + 14] = SEPARATOR
                 THEN <<IndexRead(offset + 1, TRUE)>>
                 ELSE <<IndexRead(offset + 13, FALSE)>>)
        ELSE <<IndexRead(offset, FALSE)>>)

\* The subscripts data[index] that parse_meter_data evaluates on the payload
\* it found, in the order it evaluates them; a byte that fails the marker
\* or the separator test is subscripted once more for the log line.  The
\* slices of the field reads are not among them: a slice past the end is
\* shorter, it raises nothing.
IndexReads(data) ==
    IF Len(data) = 0 THEN << >>
    ELSE IF Len(data) \notin {17, 21} THEN << >>
    ELSE IF Len(data) = 21 /\ ~HasHeader(data) THEN HeaderReads(data, 0)
    ELSE
    LET offset == IF Len(data) = 21 THEN 4 ELSE 0 IN
    (IF Len(data) = 21 THEN HeaderReads(data, 0) ELSE << >>)
    \o <<IndexRead(offset, FALSE)>>
    \o (IF At(data, offset) = ELEHANT_MARKER
        THEN <<IndexRead(offset + 13, FALSE)>>
             \o (IF At(data, offset + 13) = SEPARATOR
                 THEN <<IndexRead(offset + 1, TRUE)>>
                 ELSE <<IndexRead(offset + 13, FALSE)>>)
        ELSE <<IndexRead(offset, FALSE)>>)

\* Mutant: the payload is taken from the lowest manufacturer identifier of
\* the mapping, whichever it is
parse_meter_data_any_key(manufacturer_data) ==
    IF DOMAIN manufacturer_data = {} THEN None
    ELSE
    LET first == CHOOSE k \in DOMAIN manufacturer_data :
                     \A other \in DOMAIN manufacturer_data : k <= other
        data == manufacturer_data[first]
    IN
    IF Len(data) = 0 THEN None
    ELSE IF Len(data) \notin {17, 21} THEN None
    ELSE IF Len(data) = 21 /\ ~(/\ At(data, 0) = 20 /\ At(data, 1) = 255
                                /\ At(data, 2) = 255 /\ At(data, 3) = 255)
         THEN None
    ELSE
    LET offset == IF Len(data) = 21 THEN 4 ELSE 0 IN
    IF At(data, offset) # ELEHANT_MARKER THEN None
    ELSE IF At(data, offset + 13) # SEPARATOR THEN None
    ELSE FieldsAt(data, offset)

\* parse_meter_data(manufacturer_data): the reading dict, or None
parse_meter_data(manufacturer_data) ==
    IF DOMAIN manufacturer_data = {} THEN None
    ELSE IF MANUFACTURER_ID \notin DOMAIN manufacturer_data THEN None
    ELSE
    LET data == manufacturer_data[MANUFACTURER_ID] IN
    IF Len(data) = 0 THEN None
    ELSE IF Len(data) \notin {17, 21} THEN None
    ELSE IF Len(data) = 21 /\ ~(/\ At(data, 0) = 20 /\ At(data, 1) = 255
                                /\ At(data, 2) = 255 /\ At(data, 3) = 255)
         THEN None
    ELSE
    LET offset == IF Len(data) = 21 THEN 4 ELSE 0 IN
    IF At(data, offset) # ELEHANT_MARKER THEN None
    ELSE IF At(data, offset + 13) # SEPARATOR THEN None
    ELSE FieldsAt(data, offset)

(***************************************************************************)
(* Inputs: the advertisements the Bluetooth stack may deliver              *)
(***************************************************************************)
\* An n-byte little-endian field
RECURSIVE ToBytesLittle(_, _)
ToBytesLittle(v, n) ==
    IF n = 0 THEN << >> ELSE <<v % 256>> \o ToBytesLittle(v \div 256, n - 1)

\* A 17-byte frame as a meter sends it: marker, sequence, four filler bytes,
\* serial, value, separator, temperature, one trailing byte.
Frame17(sequence, serial, value, temp_raw) ==
    <<ELEHANT_MARKER, sequence, 0, 0, 0, 0>> \o ToBytesLittle(serial, 3)
        \o ToBytesLittle(value, 4) \o <<SEPARATOR>>
        \o ToBytesLittle(temp_raw, 2) \o <<0>>

\* The same frame behind the 14 FF FF FF tag
Frame21(sequence, serial, value, temp_raw) ==
    <<20, 255, 255, 255>> \o Frame17(sequence, serial, value, temp_raw)

MacA == <<"B","0",":","0","1",":","0","2",":","A","A",":","B","B",":","C","C">>
MacB == <<"B","0",":","0","6",":","0","3",":","0","0",":","0","0",":","2","A">>
MacBlocked == <<"1","A",":","E","C",":","A","8",":","F","2",":","5","7",":","2","2">>
MacForeign == <<"C","4",":","0","1",":","0","2",":","A","A",":","B","B",":","C","C">>
MacShort == <<"B","0",":","0","1",":","0","2",":","A","A",":","B","B">>
MacNotHex == <<"B","0",":","0","1",":","0","2",":","A","A",":","B","B",":","Z","Z">>

\* The serials the two meters carry in their MAC (11189196 and 42)
SerialA == extract_info_from_mac(MacA).serial
SerialB == extract_info_from_mac(MacB).serial

\* Readings on the air: a newer frame (sequence 7) and an older one
\* (sequence 3) of meter A, one frame of meter B, and a frame that fails
\* the marker check.
PayloadNew == (MANUFACTURER_ID :> Frame21(7, SerialA, 1500, 2150))
PayloadOld == (MANUFACTURER_ID :> Frame17(3, SerialA, 1200, 1990))
PayloadB == (MANUFACTURER_ID :> Frame17(1, SerialB, 77, 2000))
PayloadBad == (MANUFACTURER_ID :> <<1, 2, 3>>)

Adv(address, manufacturer_data, rssi) ==
    [address |-> address, manufacturer_data |-> manufacturer_data, rssi |-> rssi]

Advertisements ==
    { Adv(MacA, PayloadBad, 0 - 80),
      Adv(MacA, PayloadNew, 0 - 60),
      Adv(MacA, PayloadOld, 0 - 70),
      Adv(MacB, PayloadB, 0 - 70),
      Adv(MacBlocked, PayloadNew, 0 - 50),
      Adv(MacForeign, PayloadNew, 0 - 50),
      Adv(MacShort, PayloadNew, 0 - 50),
      Adv(MacNotHex, PayloadNew, 0 - 50) }

\* hours arguments of get_recent_devices
QueryHours == {1, 2}

\* Serials the user has configured a meter for
ConfiguredSerials == {SerialA}

\* Execution contexts of the interleaved model: two that deliver
\* advertisements and one that queries
Writers == {"ble1", "ble2"}
Reader == "query"
Contexts == Writers \cup {Reader}

\* Bounds of the model
MaxObs == 2
MaxCalls == 2
MaxTicks == 3
MaxPayloadLen == 24
TickSeconds == SecondsPerHour \div 2

(***************************************************************************)
(* State                                                                   *)
(***************************************************************************)
VARIABLES
    now,            \* time.time(): the wall clock, in seconds
    seen_devices,   \* ElehantHistoryScanner.seen_devices: mac -> record dict
    seen_order,     \* the keys of seen_devices in insertion order
    coordinators,   \* hass.data[DOMAIN]["coordinator_<serial>"]._data
    dispatched,     \* the payloads of the SIGNAL_NEW_DATA signals sent, in
                    \* the order of the async_dispatcher_send calls
    recent,         \* the list the last get_recent_devices call returned:
                    \* a sequence of references to dict objects
    observed,       \* history: the arguments of every _update_history call
                    \* that has returned
    frames,         \* per execution context: the call it is in, its position
                    \* and its local variables
    raised,         \* the exception an operation has let out, or None
    call,           \* a call of extract_info_from_mac or parse_meter_data on
                    \* its own: the function, its argument and, once it has
                    \* returned, its result
    dropped         \* history: the addresses of the advertisements that
                    \* _detection_callback returned from without recording

\* ElehantAutoDiscover, the config flow that owns it, and the event loop
VARIABLES
    now_fraction,       \* time.time(): the tenths of a second past `now`
    discovered_devices, \* ElehantAutoDiscover.discovered_devices
    scan_task,          \* ElehantAutoDiscover.scan_task: a task, or None
    start_time,         \* ElehantAutoDiscover.start_time: a time, or None
    duration,           \* ElehantAutoDiscover.duration
    log_messages,       \* ElehantAutoDiscover.log_messages
    tasks,              \* the asyncio tasks created for _scan_loop, by number
    loop_calls,         \* callbacks handed to loop.call_soon_threadsafe and
                        \* not yet called
    coroutines,         \* coroutine objects that were created by a call of
                        \* an `async def` callback and that nothing awaits
    flow_step,          \* the step the config flow shows
    flow_inputs,        \* the user_input of every async_configure call
    flow_discovered,    \* ElehantMeterConfigFlow.discovered_devices
    entries,            \* the config entries of the domain
    selected_devices,   \* ElehantMeterConfigFlow.selected_devices
    errors,             \* the errors of the form the flow shows: a dict,
                        \* as its set of items
    added,              \* history: every entry add_log has appended since
                        \* log_messages was last set to []
    announced,          \* history: the MAC of every device the scan loop
                        \* has logged as new, in the order of the lines
    stopped             \* history: stop_scan has returned and start_scan was
                        \* not called since

\* The integration in Home Assistant: the registrations of the scanner with
\* the Bluetooth API, hass.data[DOMAIN] and the entities of the sensor
\* platform
VARIABLES
    cancel_callback,    \* ElehantHistoryScanner._cancel_callback: None, or
                        \* the function that cancels a registration
    registrations,      \* the registrations async_register_callback has
                        \* made of _detection_callback, by number: is the
                        \* registration still active?
    scanner_key,        \* "scanner" in hass.data[DOMAIN]
    meter_configs,      \* hass.data[DOMAIN]["meter_<serial>"], by serial
    coordinator_ids,    \* the object hass.data[DOMAIN]["coordinator_<serial>"]
                        \* is, by serial: coordinators are numbered as they
                        \* are created
    entities,           \* the entities given to async_add_entities
    setups,             \* the config entries set up and not unloaded since
    setup_calls         \* the number of async_setup_entry calls so far

lifecycle_vars ==
    <<cancel_callback, registrations, scanner_key, meter_configs,
      coordinator_ids, entities, setups, setup_calls>>

\* ElehantAutoDiscover, the flow and the event loop
autodiscover_vars ==
    <<now_fraction, discovered_devices, scan_task, start_time, duration,
      log_messages, tasks, loop_calls, coroutines, flow_step, flow_inputs,
      flow_discovered, entries, selected_devices, errors, added, announced,
      stopped>>

discover_vars == <<autodiscover_vars, lifecycle_vars>>

\* The config entries and what the flow keeps for its last steps
config_vars == <<entries, selected_devices, errors, lifecycle_vars>>

\* The scanner's part of the state, the clock aside
scanner_vars ==
    <<seen_devices, seen_order, coordinators, dispatched, recent, observed,
      frames, raised, call, dropped>>

vars == <<now, seen_devices, seen_order, coordinators, dispatched, recent,
          observed, frames, raised, call, dropped, discover_vars>>

\* d[k] = v on a dict
SetItem(d, k, v) == [x \in DOMAIN d \cup {k} |-> IF x = k THEN v ELSE d[x]]

(***************************************************************************)
(* ElehantHistoryScanner                                                   *)
(***************************************************************************)
BLOCKED_MACS == {MacBlocked}

\* Mutant: the new record already counts its first packet
NewDeviceCounted(mac, mac_info, rssi, timestamp) ==
    [serial |-> mac_info.serial,
     model |-> mac_info.model,
     type_byte |-> mac_info.type_byte,
     device_type |-> mac_info.device_type,
     mac |-> mac,
     first_seen |-> timestamp,
     last_seen |-> timestamp,
     packets |-> 1,
     best_rssi |-> rssi,
     manufacturer_data |-> << >>]

\* The record _update_history stores for a MAC it has not seen
NewDevice(mac, mac_info, rssi, timestamp) ==
    [serial |-> mac_info.serial,
     model |-> mac_info.model,
     type_byte |-> mac_info.type_byte,
     device_type |-> mac_info.device_type,
     mac |-> mac,
     first_seen |-> timestamp,
     last_seen |-> timestamp,
     packets |-> 0,
     best_rssi |-> rssi,
     manufacturer_data |-> << >>]

\* Mutant: the last signal strength is stored, not the best one
TouchLastRssi(device_info, rssi, timestamp) ==
    [device_info EXCEPT !.last_seen = timestamp,
                        !.packets = @ + 1,
                        !.best_rssi = rssi]

\* Mutant: every observation restarts first_seen
TouchFirstSeen(device_info, rssi, timestamp) ==
    [device_info EXCEPT !.first_seen = timestamp,
                        !.last_seen = timestamp,
                        !.packets = @ + 1,
                        !.best_rssi = IF rssi > @ THEN rssi ELSE @]

\* The in-place update of a record: last_seen, packets, best_rssi
Touch(device_info, rssi, timestamp) ==
    [device_info EXCEPT !.last_seen = timestamp,
                        !.packets = @ + 1,
                        !.best_rssi = IF rssi > @ THEN rssi ELSE @]

\* Mutant: a failed decode clears the stored reading
StoreReadingOrClear(device_info, parsed) ==
    IF parsed # None
    THEN SetItem(SetItem(SetItem(device_info,
             "last_value", parsed.value),
             "last_temperature", parsed.temperature),
             "last_raw", parsed.raw_data)
    ELSE [k \in DOMAIN device_info \ {"last_value", "last_temperature", "last_raw"}
             |-> device_info[k]]

\* Mutant: a reading replaces the stored one only if its value is not smaller
StoreReadingIfNewer(device_info, parsed) ==
    IF parsed # None
       /\ ("last_value" \in DOMAIN device_info => WideGeq(parsed.value, device_info.last_value))
    THEN SetItem(SetItem(SetItem(device_info,
             "last_value", parsed.value),
             "last_temperature", parsed.temperature),
             "last_raw", parsed.raw_data)
    ELSE device_info

\* if parsed: store the last reading
StoreReading(device_info, parsed) ==
    IF parsed # None
    THEN SetItem(SetItem(SetItem(device_info,
             "last_value", parsed.value),
             "last_temperature", parsed.temperature),
             "last_raw", parsed.raw_data)
    ELSE device_info

\* Mutant: records not seen for an hour are dropped when an observation
\* arrives
update_history_purging(seen, mac, mac_info, parsed, rssi, timestamp) ==
    LET fresh == {m \in DOMAIN seen :
                     seen[m].last_seen >= timestamp - SecondsPerHour}
        kept == [m \in fresh |-> seen[m]]
        created == IF mac \notin DOMAIN kept
                   THEN SetItem(kept, mac, NewDevice(mac, mac_info, rssi, timestamp))
                   ELSE kept
    IN  [created EXCEPT
            ![mac] = StoreReading(Touch(created[mac], rssi, timestamp), parsed)]

\* Mutant: an observation whose payload did not decode is not recorded
update_history_decoded_only(seen, mac, mac_info, parsed, rssi, timestamp) ==
    IF parsed = None THEN seen
    ELSE LET created == IF mac \notin DOMAIN seen
                        THEN SetItem(seen, mac, NewDevice(mac, mac_info, rssi, timestamp))
                        ELSE seen
         IN  [created EXCEPT
                 ![mac] = StoreReading(Touch(created[mac], rssi, timestamp), parsed)]

\* seen_devices after _update_history
update_history(seen, mac, mac_info, parsed, rssi, timestamp) ==
    LET created == IF mac \notin DOMAIN seen
                   THEN SetItem(seen, mac, NewDevice(mac, mac_info, rssi, timestamp))
                   ELSE seen
    IN  [created EXCEPT
            ![mac] = StoreReading(Touch(created[mac], rssi, timestamp), parsed)]

\* Mutant: the update names the serial found in the payload
UpdateDataPayloadSerial(serial, parsed, rssi) ==
    [serial |-> parsed.serial,
     value |-> parsed.value,
     temperature |-> parsed.temperature,
     rssi |-> rssi]

\* The update _notify_meter_update hands to the coordinator and the dispatcher
UpdateData(serial, parsed, rssi) ==
    [serial |-> serial,
     value |-> parsed.value,
     temperature |-> parsed.temperature,
     rssi |-> rssi]

\* Mutant: the update is handed over without the test for a registered
\* coordinator
NotifiesUnregistered(mac_info, parsed) == parsed # None

\* Does _update_history reach a registered coordinator?
Notifies(mac_info, parsed) ==
    parsed # None /\ mac_info.serial \in DOMAIN coordinators

\* A list of dicts holds references.  The dict objects of this program are
\* the records, one per MAC, that seen_devices holds (named by their key),
\* and the dicts get_recent_devices builds, which nothing else refers to
\* (kept by value).  The manufacturer_data dict of a record is never written
\* after its creation and is kept by value too.
RecordRef(mac) == [obj |-> "record", mac |-> mac]
NewDict(contents) == [obj |-> "own", dict |-> contents]
Deref(seen, ref) == IF ref.obj = "record" THEN seen[ref.mac] ELSE ref.dict

\* Mutant: the list holds the record itself (recent.append(info))
RecentEntryLive(mac, info) == RecordRef(mac)

\* get_recent_devices: a new dict {"mac": mac, **info} for every record whose
\* last_seen is not before the cutoff, in the iteration order of the dict
RecentEntry(mac, info) ==
    NewDict([k \in {"mac"} \cup DOMAIN info |->
                IF k \in DOMAIN info THEN info[k] ELSE mac])

\* Mutant: a record seen exactly at the cutoff is left out
InWindowStrict(info, cutoff) == info["last_seen"] > cutoff

\* if info["last_seen"] >= cutoff
InWindow(info, cutoff) == info["last_seen"] >= cutoff

RECURSIVE RecentFrom(_, _, _)
RecentFrom(order, seen, cutoff) ==
    IF Len(order) = 0 THEN << >>
    ELSE LET mac == Head(order)
             rest == RecentFrom(Tail(order), seen, cutoff)
         IN  IF InWindow(seen[mac], cutoff)
             THEN <<RecentEntry(mac, seen[mac])>> \o rest
             ELSE rest

get_recent_devices(order, seen, time, hours) ==
    RecentFrom(order, seen, time - hours * SecondsPerHour)

(***************************************************************************)
(* Actions                                                                 *)
(***************************************************************************)
\* ElehantAutoDiscover.__init__ and ElehantMeterConfigFlow.__init__: nothing
\* discovered, no task, no log line; the flow is at its menu and the domain
\* has no config entry
InitAutoDiscover ==
    /\ now_fraction = 0
    /\ discovered_devices = << >>
    /\ scan_task = None
    /\ start_time = None
    /\ duration = 0
    /\ log_messages = << >>
    /\ tasks = << >>
    /\ loop_calls = << >>
    /\ coroutines = << >>
    /\ flow_step = "user"
    /\ flow_inputs = << >>
    /\ flow_discovered = << >>
    /\ entries = << >>
    /\ selected_devices = << >>
    /\ errors = {}
    /\ added = << >>
    /\ announced = << >>
    /\ stopped = FALSE
    /\ cancel_callback = None
    /\ registrations = << >>
    /\ scanner_key = FALSE
    /\ meter_configs = << >>
    /\ coordinator_ids = << >>
    /\ entities = << >>
    /\ setups = {}
    /\ setup_calls = 0

Init ==
    /\ now = 0
    /\ seen_devices = << >>
    /\ seen_order = << >>
    /\ coordinators = << >>
    /\ dispatched = << >>
    /\ recent = << >>
    /\ observed = << >>
    /\ frames = [t \in Contexts |-> [pc |-> "idle"]]
    /\ raised = None
    /\ call = None
    /\ dropped = {}
    /\ InitAutoDiscover

\* The three returns of _detection_callback that come before the history is
\* touched: a blocked address, an address without the "B0:" prefix, an
\* address extract_info_from_mac gives no identity for
Ignored(service_info) ==
    \/ service_info.address \in BLOCKED_MACS
    \/ ~StartsWith(service_info.address, <<"B", "0", ":">>)
    \/ extract_info_from_mac(service_info.address) = None

\* What is known of a device whose MAC gives no identity
NoIdentity(mac) ==
    [serial |-> None, model |-> None, type_byte |-> None,
     device_type |-> None, mac |-> mac]

\* Mutant: the identity test is missing, an address with the prefix is
\* recorded whether or not it gives an identity
DetectionUnfiltered(service_info) ==
    LET mac == service_info.address
        mac_info == IF extract_info_from_mac(mac) = None THEN NoIdentity(mac)
                    ELSE extract_info_from_mac(mac)
        parsed == parse_meter_data(service_info.manufacturer_data)
        rssi == service_info.rssi
    IN  IF \/ mac \in BLOCKED_MACS
           \/ ~StartsWith(mac, <<"B", "0", ":">>)
        THEN UNCHANGED <<now, seen_devices, seen_order, coordinators,
                         dispatched, recent, observed, frames, raised, call>>
        ELSE /\ Len(observed) < MaxObs
             /\ seen_devices' =
                    update_history(seen_devices, mac, mac_info, parsed, rssi, now)
             /\ seen_order' = IF mac \in DOMAIN seen_devices THEN seen_order
                              ELSE Append(seen_order, mac)
             /\ observed' = Append(observed,
                    [mac |-> mac, mac_info |-> mac_info, parsed |-> parsed,
                     rssi |-> rssi, timestamp |-> now])
             /\ UNCHANGED <<now, coordinators, dispatched, recent, frames,
                            raised, call>>

\* _detection_callback, with the _update_history and _notify_meter_update
\* calls it makes: everything it does to the program's state
Detection(service_info) ==
    LET mac == service_info.address
        mac_info == extract_info_from_mac(mac)
        parsed == parse_meter_data(service_info.manufacturer_data)
        rssi == service_info.rssi
    IN  IF Ignored(service_info)
        THEN UNCHANGED <<now, seen_devices, seen_order, coordinators,
                         dispatched, recent, observed, frames, raised, call>>
        ELSE /\ Len(observed) < MaxObs
             /\ seen_devices' =
                    update_history(seen_devices, mac, mac_info, parsed, rssi, now)
             /\ seen_order' = IF mac \in DOMAIN seen_devices THEN seen_order
                              ELSE Append(seen_order, mac)
             /\ IF Notifies(mac_info, parsed)
                THEN /\ coordinators' =
                            [coordinators EXCEPT ![mac_info.serial] =
                                UpdateData(mac_info.serial, parsed, rssi)]
                     /\ dispatched' = Append(dispatched,
                            UpdateData(mac_info.serial, parsed, rssi))
                ELSE UNCHANGED <<coordinators, dispatched>>
             /\ observed' = Append(observed,
                    [mac |-> mac, mac_info |-> mac_info, parsed |-> parsed,
                     rssi |-> rssi, timestamp |-> now])
             /\ UNCHANGED <<now, recent, frames, raised, call>>

\* The Bluetooth stack hands an advertisement to _detection_callback
DetectionCallback(service_info) ==
    /\ Detection(service_info)
    /\ UNCHANGED <<dropped, discover_vars>>

\* The same call, with the addresses it returned from without recording kept
\* in the history variable
Deliver(service_info) ==
    /\ Detection(service_info)
    /\ dropped' = IF Ignored(service_info)
                  THEN dropped \cup {service_info.address}
                  ELSE dropped
    /\ UNCHANGED discover_vars

\* A caller asks for the devices of the last `hours` hours and keeps the list
GetRecentDevices(hours) ==
    /\ recent' = get_recent_devices(seen_order, seen_devices, now, hours)
    /\ UNCHANGED <<now, seen_devices, seen_order, coordinators, dispatched,
                   observed, frames, raised,
                   call, dropped, discover_vars>>

\* sensor.async_setup_entry: a new coordinator, with no data, for a configured meter
SensorSetup(serial) ==
    /\ coordinators' = SetItem(coordinators, serial, << >>)
    /\ UNCHANGED <<now, seen_devices, seen_order, dispatched, recent, observed,
                   frames, raised,
                   call, dropped, discover_vars>>

\* Time passes
Tick ==
    /\ now < MaxTicks * TickSeconds
    /\ now' = now + TickSeconds
    /\ UNCHANGED <<seen_devices, seen_order, coordinators, dispatched, recent,
                   observed, frames, raised,
                   call, dropped, discover_vars>>

\* time.time() is the system clock: an adjustment (NTP, the user) sets it back
ClockSetBack ==
    /\ now >= TickSeconds
    /\ now' = now - TickSeconds
    /\ UNCHANGED <<seen_devices, seen_order, coordinators, dispatched, recent,
                   observed, frames, raised,
                   call, dropped, discover_vars>>

Next ==
    \/ \E service_info \in Advertisements : DetectionCallback(service_info)
    \/ \E hours \in QueryHours : GetRecentDevices(hours)
    \/ Tick
    \/ ClockSetBack

Spec == Init /\ [][Next]_vars

(***************************************************************************)
(* The same code run from several execution contexts.  The scanner holds   *)
(* no lock, so _update_history and get_recent_devices interleave statement *)
(* by statement; `d[k] += 1` is a read followed by a write.                *)
(***************************************************************************)
AdvertisementsInterleaved ==
    { Adv(MacA, PayloadBad, 0 - 80),
      Adv(MacA, PayloadNew, 0 - 60),
      Adv(MacB, PayloadB, 0 - 70) }

Busy == {t \in Writers : frames[t].pc # "idle"}

\* The dict a local variable refers to
Local(t) == Deref(seen_devices, frames[t].device_info)

\* device_info[key] = value by context t: the write lands in the record of
\* seen_devices if device_info still is that record, and in the dict the
\* context holds otherwise
WriteField(t, key, value, pc) ==
    LET ref == frames[t].device_info IN
    IF ref.obj = "record"
    THEN /\ seen_devices' =
               [seen_devices EXCEPT ![ref.mac] = SetItem(@, key, value)]
         /\ frames' = [frames EXCEPT ![t].pc = pc]
    ELSE /\ frames' = [frames EXCEPT ![t].pc = pc,
                                     ![t].device_info =
                                         NewDict(SetItem(ref.dict, key, value))]
         /\ UNCHANGED seen_devices

\* _detection_callback up to the call of _update_history: no shared state
UH_Call(t, service_info) ==
    LET mac == service_info.address
        mac_info == extract_info_from_mac(mac)
    IN  /\ frames[t].pc = "idle"
        /\ Len(observed) + Cardinality(Busy) < MaxCalls
        /\ mac \notin BLOCKED_MACS
        /\ StartsWith(mac, <<"B", "0", ":">>)
        /\ mac_info # None
        /\ frames' = [frames EXCEPT ![t] =
               [pc |-> "L210", mac |-> mac, mac_info |-> mac_info,
                parsed |-> parse_meter_data(service_info.manufacturer_data),
                rssi |-> service_info.rssi, timestamp |-> now,
                device_info |-> None, packets |-> 0]]
        /\ UNCHANGED <<now, seen_devices, seen_order, coordinators, dispatched,
                       recent, observed, raised,
                       call, dropped, discover_vars>>

\* if mac not in self.seen_devices:
UH_TestSeen(t) ==
    /\ frames[t].pc = "L210"
    /\ frames' = [frames EXCEPT ![t].pc =
           IF frames[t].mac \notin DOMAIN seen_devices THEN "L212" ELSE "L227"]
    /\ UNCHANGED <<now, seen_devices, seen_order, coordinators, dispatched,
                   recent, observed, raised,
                   call, dropped, discover_vars>>

\* self.seen_devices[mac] = {...}: a context that holds the dict stored under
\* this key until now keeps that dict, which is no longer in seen_devices
UH_Create(t) ==
    LET f == frames[t]
        old == NewDict(seen_devices[f.mac])
    IN  /\ f.pc = "L212"
        /\ seen_devices' = SetItem(seen_devices, f.mac,
               NewDevice(f.mac, f.mac_info, f.rssi, f.timestamp))
        /\ seen_order' = IF f.mac \in DOMAIN seen_devices THEN seen_order
                         ELSE Append(seen_order, f.mac)
        /\ frames' = [u \in Contexts |->
               IF u = t THEN [f EXCEPT !.pc = "L227"]
               ELSE IF frames[u].pc = "idle" THEN frames[u]
               ELSE IF u = Reader
                    THEN (IF frames[u].info = RecordRef(f.mac)
                          THEN [frames[u] EXCEPT !.info = old] ELSE frames[u])
                    ELSE (IF frames[u].device_info = RecordRef(f.mac)
                          THEN [frames[u] EXCEPT !.device_info = old] ELSE frames[u])]
        /\ UNCHANGED <<now, coordinators, dispatched, recent, observed, raised,
                       call, dropped, discover_vars>>

\* device_info = self.seen_devices[mac]
UH_GetRecord(t) ==
    /\ frames[t].pc = "L227"
    /\ frames' = [frames EXCEPT ![t].pc = "L228",
                                ![t].device_info = RecordRef(frames[t].mac)]
    /\ UNCHANGED <<now, seen_devices, seen_order, coordinators, dispatched,
                   recent, observed, raised,
                   call, dropped, discover_vars>>

\* device_info["last_seen"] = timestamp
UH_SetLastSeen(t) ==
    /\ frames[t].pc = "L228"
    /\ WriteField(t, "last_seen", frames[t].timestamp, "L229")
    /\ UNCHANGED <<now, seen_order, coordinators, dispatched, recent, observed,
                   raised,
                   call, dropped, discover_vars>>

\* device_info["packets"] += 1, the read
UH_LoadPackets(t) ==
    /\ frames[t].pc = "L229"
    /\ frames' = [frames EXCEPT ![t].pc = "L229store",
                                ![t].packets = Local(t).packets]
    /\ UNCHANGED <<now, seen_devices, seen_order, coordinators, dispatched,
                   recent, observed, raised,
                   call, dropped, discover_vars>>

\* device_info["packets"] += 1, the write
UH_StorePackets(t) ==
    /\ frames[t].pc = "L229store"
    /\ WriteField(t, "packets", frames[t].packets + 1, "L230")
    /\ UNCHANGED <<now, seen_order, coordinators, dispatched, recent, observed,
                   raised,
                   call, dropped, discover_vars>>

\* if service_info.rssi > device_info["best_rssi"]:
UH_TestRssi(t) ==
    /\ frames[t].pc = "L230"
    /\ frames' = [frames EXCEPT ![t].pc =
           IF frames[t].rssi > Local(t).best_rssi THEN "L231" ELSE "L234"]
    /\ UNCHANGED <<now, seen_devices, seen_order, coordinators, dispatched,
                   recent, observed, raised,
                   call, dropped, discover_vars>>

\* device_info["best_rssi"] = service_info.rssi
UH_SetBestRssi(t) ==
    /\ frames[t].pc = "L231"
    /\ WriteField(t, "best_rssi", frames[t].rssi, "L234")
    /\ UNCHANGED <<now, seen_order, coordinators, dispatched, recent, observed,
                   raised,
                   call, dropped, discover_vars>>

\* The arguments of a call, as the history keeps them
CallOf(f) ==
    [mac |-> f.mac, mac_info |-> f.mac_info, parsed |-> f.parsed,
     rssi |-> f.rssi, timestamp |-> f.timestamp]

\* if parsed: (and the return when there is no reading)
UH_TestParsed(t) ==
    /\ frames[t].pc = "L234"
    /\ IF frames[t].parsed # None
       THEN /\ frames' = [frames EXCEPT ![t].pc = "L235"]
            /\ UNCHANGED observed
       ELSE /\ frames' = [frames EXCEPT ![t] = [pc |-> "idle"]]
            /\ observed' = Append(observed, CallOf(frames[t]))
    /\ UNCHANGED <<now, seen_devices, seen_order, coordinators, dispatched,
                   recent, raised,
                   call, dropped, discover_vars>>

\* device_info["last_value"] = parsed["value"]
UH_SetLastValue(t) ==
    /\ frames[t].pc = "L235"
    /\ WriteField(t, "last_value", frames[t].parsed.value, "L236")
    /\ UNCHANGED <<now, seen_order, coordinators, dispatched, recent, observed,
                   raised,
                   call, dropped, discover_vars>>

\* device_info["last_temperature"] = parsed["temperature"]
UH_SetLastTemperature(t) ==
    /\ frames[t].pc = "L236"
    /\ WriteField(t, "last_temperature", frames[t].parsed.temperature, "L237")
    /\ UNCHANGED <<now, seen_order, coordinators, dispatched, recent, observed,
                   raised,
                   call, dropped, discover_vars>>

\* device_info["last_raw"] = parsed["raw_data"]
UH_SetLastRaw(t) ==
    /\ frames[t].pc = "L237"
    /\ WriteField(t, "last_raw", frames[t].parsed.raw_data, "L240")
    /\ UNCHANGED <<now, seen_order, coordinators, dispatched, recent, observed,
                   raised,
                   call, dropped, discover_vars>>

\* self._notify_meter_update(...), and the return
UH_Notify(t) ==
    LET f == frames[t] IN
    /\ f.pc = "L240"
    /\ IF f.mac_info.serial \in DOMAIN coordinators
       THEN /\ coordinators' =
                   [coordinators EXCEPT ![f.mac_info.serial] =
                       UpdateData(f.mac_info.serial, f.parsed, f.rssi)]
            /\ dispatched' = Append(dispatched,
                   UpdateData(f.mac_info.serial, f.parsed, f.rssi))
       ELSE UNCHANGED <<coordinators, dispatched>>
    /\ frames' = [frames EXCEPT ![t] = [pc |-> "idle"]]
    /\ observed' = Append(observed, CallOf(f))
    /\ UNCHANGED <<now, seen_devices, seen_order, recent, raised,
                   call, dropped, discover_vars>>

\* get_recent_devices up to the loop: the dict iterator notes the size of
\* the dict it iterates
GRD_Call(hours) ==
    /\ frames[Reader].pc = "idle"
    /\ raised = None
    /\ frames' = [frames EXCEPT ![Reader] =
           [pc |-> "L261", cutoff |-> now - hours * SecondsPerHour,
            recent |-> << >>, size |-> Len(seen_order), index |-> 0,
            mac |-> None, info |-> None]]
    /\ UNCHANGED <<now, seen_devices, seen_order, coordinators, dispatched,
                   recent, observed, raised,
                   call, dropped, discover_vars>>

\* for mac, info in self.seen_devices.items(): the next item, the end of the
\* loop (return recent), or RuntimeError("dictionary changed size during
\* iteration")
GRD_Next ==
    LET f == frames[Reader] IN
    /\ f.pc = "L261"
    /\ IF Len(seen_order) # f.size
       THEN /\ raised' = [py_raise |-> "RuntimeError"]
            /\ frames' = [frames EXCEPT ![Reader] = [pc |-> "idle"]]
            /\ UNCHANGED recent
       ELSE IF f.index = f.size
       THEN /\ recent' = f.recent
            /\ frames' = [frames EXCEPT ![Reader] = [pc |-> "idle"]]
            /\ UNCHANGED raised
       ELSE /\ frames' = [frames EXCEPT ![Reader] =
                   [f EXCEPT !.pc = "L262",
                             !.index = f.index + 1,
                             !.mac = seen_order[f.index + 1],
                             !.info = RecordRef(seen_order[f.index + 1])]]
            /\ UNCHANGED <<recent, raised>>
    /\ UNCHANGED <<now, seen_devices, seen_order, coordinators, dispatched,
                   observed,
                   call, dropped, discover_vars>>

\* if info["last_seen"] >= cutoff:
GRD_Test ==
    LET f == frames[Reader] IN
    /\ f.pc = "L262"
    /\ frames' = [frames EXCEPT ![Reader].pc =
           IF InWindow(Deref(seen_devices, f.info), f.cutoff) THEN "L263" ELSE "L261"]
    /\ UNCHANGED <<now, seen_devices, seen_order, coordinators, dispatched,
                   recent, observed, raised,
                   call, dropped, discover_vars>>

\* recent.append({"mac": mac, **info})
GRD_Append ==
    LET f == frames[Reader] IN
    /\ f.pc = "L263"
    /\ frames' = [frames EXCEPT ![Reader].pc = "L261",
                                ![Reader].recent =
           Append(f.recent, RecentEntry(f.mac, Deref(seen_devices, f.info)))]
    /\ UNCHANGED <<now, seen_devices, seen_order, coordinators, dispatched,
                   recent, observed, raised,
                   call, dropped, discover_vars>>

NextInterleaved ==
    \/ \E t \in Writers :
          \/ \E service_info \in AdvertisementsInterleaved : UH_Call(t, service_info)
          \/ UH_TestSeen(t)
          \/ UH_Create(t)
          \/ UH_GetRecord(t)
          \/ UH_SetLastSeen(t)
          \/ UH_LoadPackets(t)
          \/ UH_StorePackets(t)
          \/ UH_TestRssi(t)
          \/ UH_SetBestRssi(t)
          \/ UH_TestParsed(t)
          \/ UH_SetLastValue(t)
          \/ UH_SetLastTemperature(t)
          \/ UH_SetLastRaw(t)
          \/ UH_Notify(t)
    \/ \E hours \in QueryHours : GRD_Call(hours)
    \/ GRD_Next
    \/ GRD_Test
    \/ GRD_Append

SpecInterleaved == Init /\ [][NextInterleaved]_vars

\* The tracker as the Bluetooth stack and the discovery flow drive it, with
\* the history of the advertisements that were not recorded
NextDelivery ==
    \/ \E service_info \in Advertisements : Deliver(service_info)
    \/ \E hours \in QueryHours : GetRecentDevices(hours)

SpecDelivery == Init /\ [][NextDelivery]_vars

(***************************************************************************)
(* extract_info_from_mac called on its own                                 *)
(***************************************************************************)
\* ":".join(parts)
RECURSIVE Join(_)
Join(parts) ==
    IF Len(parts) = 0 THEN << >>
    ELSE IF Len(parts) = 1 THEN parts[1]
    ELSE parts[1] \o <<":">> \o Join(Tail(parts))

\* Second octets: a model of both tables (01), a water model (06), gas
\* models (10, 54) and models of neither table (07, FF)
ModelOctets ==
    {<<"0", "1">>, <<"0", "6">>, <<"1", "0">>, <<"5", "4">>, <<"0", "7">>,
     <<"F", "F">>}

\* Third octets: the three type bytes of the fallback and three others
TypeOctets ==
    {<<"0", "2">>, <<"0", "3">>, <<"0", "4">>, <<"0", "0">>, <<"0", "5">>,
     <<"a", "0">>}

\* The last three octets
SerialOctets ==
    {<<<<"A", "A">>, <<"B", "B">>, <<"C", "C">>>>,
     <<<<"0", "0">>, <<"0", "0">>, <<"2", "A">>>>,
     <<<<"f", "f">>, <<"F", "F">>, <<"0", "f">>>>}

\* Addresses as a meter has them
MeterMacs ==
    {Join(<<<<"B", "0">>, m, t>> \o s) :
        m \in ModelOctets, t \in TypeOctets, s \in SerialOctets}

\* Addresses that do not start with "B0:"
OtherMacs ==
    {Join(<<v, m, <<"0", "2">>, <<"A", "A">>, <<"B", "B">>, <<"C", "C">>>>) :
        v \in {<<"B", "1">>, <<"C", "4">>, <<"b", "0">>, <<"0", "B">>},
        m \in ModelOctets}
    \cup {<< >>, <<"B">>, <<"B", "0">>, <<" ">> \o MacA, <<":">> \o MacA,
          <<"B", "0", "-", "0", "1", "-", "0", "2", "-", "A", "A", "-", "B", "B",
            "-", "C", "C">>,
          <<"B", "0", "0", "1", "0", "2", "A", "A", "B", "B", "C", "C">>}

\* What may stand in the place of an octet and is not two hexadecimal digits
NotOctets ==
    {<< >>, <<"1">>, <<"0", "0", "1">>, <<"Z", "Z">>, <<"0", "G">>,
     <<"+", "1">>, <<"-", "1">>, <<"0", "_", "1">>, <<"_", "1">>, <<"1", "_">>,
     <<" ", "1">>, <<"1", " ">>, <<"0", "x", "1">>, <<"0", "x">>, <<"1", " ", "1">>}

\* MacA with its part at position i (2..6) replaced
WithPart(i, part) == Join([Split(MacA) EXCEPT ![i] = part])

\* Addresses with the prefix that are not six two-digit octets
MalformedMacs ==
    {WithPart(i, part) : i \in 2..6, part \in NotOctets}
    \cup {MacShort, MacNotHex, MacA \o <<":">>, MacA \o <<":", "D", "D">>,
          <<"B", "0", ":">>, <<"B", "0", ":", "0", "1">>,
          <<"B", "0", ":", ":", ":", ":", ":">>}

MacInputs == MeterMacs \cup OtherMacs \cup MalformedMacs

InitIdentity ==
    /\ now = 0
    /\ seen_devices = << >>
    /\ seen_order = << >>
    /\ coordinators = << >>
    /\ dispatched = << >>
    /\ recent = << >>
    /\ observed = << >>
    /\ frames = [t \in Contexts |-> [pc |-> "idle"]]
    /\ raised = None
    /\ dropped = {}
    /\ InitAutoDiscover
    /\ call \in {[fn |-> "extract_info_from_mac", pc |-> "called", mac |-> mac,
                  result |-> None] : mac \in MacInputs}

\* extract_info_from_mac(mac) runs and returns
ExtractInfoFromMac ==
    /\ call.fn = "extract_info_from_mac"
    /\ call.pc = "called"
    /\ call' = [call EXCEPT !.pc = "returned",
                            !.result = extract_info_from_mac(call.mac)]
    /\ UNCHANGED <<now, seen_devices, seen_order, coordinators, dispatched,
                   recent, observed, frames, raised, dropped, discover_vars>>

NextIdentity == ExtractInfoFromMac

SpecIdentity == InitIdentity /\ [][NextIdentity]_vars

(***************************************************************************)
(* parse_meter_data called on its own                                      *)
(***************************************************************************)
\* The fields a meter puts in a frame: sequence (1 byte), serial (3 bytes),
\* value (4 bytes, as two 16-bit halves), raw temperature (2 bytes)
SequenceValues == {0, 7, 255}
SerialValues == {0, 1, SerialA, 256 * 65536 - 1}
WideValues ==
    {[hi |-> 0, lo |-> 0], [hi |-> 0, lo |-> 1500], [hi |-> 1, lo |-> 65535],
     [hi |-> 32768, lo |-> 0], [hi |-> 65535, lo |-> 65535]}
TemperatureValues == {0, 2150, 65535}

FrameFields ==
    [sequence : SequenceValues, serial : SerialValues, value : WideValues,
     temp_raw : TemperatureValues]

\* The bytes of a frame the decoder does not read (logical offsets 2..5 and
\* 16) all hold `fill`
FillValues == {0, 255, ELEHANT_MARKER}

\* The 17-byte frame that carries the fields
Encode17(fields, fill) ==
    <<ELEHANT_MARKER, fields.sequence, fill, fill, fill, fill>>
        \o ToBytesLittle(fields.serial, 3)
        \o ToBytesLittle(fields.value.lo, 2) \o ToBytesLittle(fields.value.hi, 2)
        \o <<SEPARATOR>>
        \o ToBytesLittle(fields.temp_raw, 2) \o <<fill>>

\* The same frame behind the 14 FF FF FF tag
Encode21(fields, fill) == <<20, 255, 255, 255>> \o Encode17(fields, fill)

\* An argument of parse_meter_data, with the fields its payload was built
\* from (None when it was not built from fields)
DecodeInput(manufacturer_data, fields) ==
    [manufacturer_data |-> manufacturer_data, fields |-> fields]

BuiltInputs ==
    {DecodeInput(MANUFACTURER_ID :> Encode17(f, fill), f) :
        f \in FrameFields, fill \in FillValues}
    \cup {DecodeInput(MANUFACTURER_ID :> Encode21(f, fill), f) :
        f \in FrameFields, fill \in FillValues}

\* Two frames to derive rejected payloads from
Sample17 == Encode17([sequence |-> 7, serial |-> 42,
                      value |-> [hi |-> 0, lo |-> 1500], temp_raw |-> 2150], 0)
Sample21 == <<20, 255, 255, 255>> \o Sample17

\* Payloads of a length other than 17 and 21
WrongLengthPayloads ==
    {<< >>, <<1, 2, 3>>, <<20, 255, 255, 255>>,
     SubSeq(Sample17, 1, 16), Sample17 \o <<0>>, Sample17 \o <<0, 0>>,
     SubSeq(Sample21, 1, 20), Sample21 \o <<0>>, Sample21 \o Sample17,
     <<ELEHANT_MARKER>>}

\* 21 bytes that have a marker and a separator both at offset 0 and at
\* offset 4
BothOffsets ==
    <<ELEHANT_MARKER, 1, 1, 1, ELEHANT_MARKER, 1, 1, 1, 1, 1, 1, 1, 1,
      SEPARATOR, 1, 1, 1, SEPARATOR, 1, 1, 1>>

\* Payloads of 21 bytes whose first four bytes are not 14 FF FF FF
WrongTagPayloads ==
    {tag \o Sample17 :
        tag \in {<<0, 255, 255, 255>>, <<21, 255, 255, 255>>, <<20, 0, 255, 255>>,
                 <<20, 255, 254, 255>>, <<20, 255, 255, 0>>, <<255, 255, 255, 20>>,
                 <<0, 0, 0, 0>>}}
    \cup {Sample17 \o <<0, 0, 0, 0>>, Sample17 \o <<20, 255, 255, 255>>,
          BothOffsets}

\* Frames whose byte at the marker's or the separator's place is another one
WrongMarkerPayloads ==
    {[Sample17 EXCEPT ![1] = b] : b \in {0, 20, SEPARATOR, 129}}
    \cup {[Sample21 EXCEPT ![5] = b] : b \in {0, 20, SEPARATOR, 129}}
    \cup {[Sample17 EXCEPT ![14] = b] : b \in {0, 126, ELEHANT_MARKER, 255}}
    \cup {[Sample21 EXCEPT ![18] = b] : b \in {0, 126, ELEHANT_MARKER, 255}}
    \cup {[Sample21 EXCEPT ![1] = ELEHANT_MARKER, ![14] = SEPARATOR, ![5] = 0],
          [Sample21 EXCEPT ![14] = SEPARATOR, ![18] = 0]}

\* Mappings with no payload under 0xFFFF
OtherMappings == {<< >>, (76 :> Sample17), (76 :> Sample21)}

DecodeInputs ==
    BuiltInputs
    \cup {DecodeInput(MANUFACTURER_ID :> data, None) :
            data \in WrongLengthPayloads \cup WrongTagPayloads
                        \cup WrongMarkerPayloads}
    \cup {DecodeInput(manufacturer_data, None) :
            manufacturer_data \in OtherMappings}

InitDecode ==
    /\ now = 0
    /\ seen_devices = << >>
    /\ seen_order = << >>
    /\ coordinators = << >>
    /\ dispatched = << >>
    /\ recent = << >>
    /\ observed = << >>
    /\ frames = [t \in Contexts |-> [pc |-> "idle"]]
    /\ raised = None
    /\ dropped = {}
    /\ InitAutoDiscover
    /\ call \in {[fn |-> "parse_meter_data", pc |-> "called",
                  manufacturer_data |-> input.manufacturer_data,
                  fields |-> input.fields, reads |-> << >>,
                  result |-> None] :
                     input \in DecodeInputs}

\* parse_meter_data(manufacturer_data) runs and returns, or lets an
\* IndexError out: a subscript past the end of the payload raises it, and
\* only the try block of the field reads catches it (and returns None)
ParseMeterData ==
    LET manufacturer_data == call.manufacturer_data
        data == IF MANUFACTURER_ID \in DOMAIN manufacturer_data
                THEN manufacturer_data[MANUFACTURER_ID] ELSE << >>
        reads == IndexReads(data)
        past == {i \in 1..Len(reads) : reads[i].index >= Len(data)}
    IN  /\ call.fn = "parse_meter_data"
        /\ call.pc = "called"
        /\ call' = [call EXCEPT !.pc = "returned",
                                !.reads = reads,
                                !.result = IF past = {}
                                           THEN parse_meter_data(manufacturer_data)
                                           ELSE None]
        /\ raised' = IF \E i \in past : ~reads[i].guarded
                     THEN [py_raise |-> "IndexError"]
                     ELSE None
        /\ UNCHANGED <<now, seen_devices, seen_order, coordinators, dispatched,
                       recent, observed, frames, dropped, discover_vars>>

NextDecode == ParseMeterData

SpecDecode == InitDecode /\ [][NextDecode]_vars

(***************************************************************************)
(* parse_meter_data called on mappings with several manufacturer           *)
(* identifiers and on payloads of any length                               *)
(***************************************************************************)
\* A second frame, with other fields than Sample17
Sample17B == Encode17([sequence |-> 9, serial |-> 77,
                       value |-> [hi |-> 2, lo |-> 3], temp_raw |-> 1800], 255)

\* Manufacturer identifiers other than 0xFFFF: one below every payload key
\* of the model, Apple's 0x004C, and the neighbour of 0xFFFF
OtherIdentifiers == {0, 76, 65534}

\* What another identifier may carry
OtherPayloads == {Sample17, Sample21, <<1, 2, 3>>, << >>}

\* What 0xFFFF may carry next to it
MainPayloads ==
    {Sample17B, <<20, 255, 255, 255>> \o Sample17B, << >>, <<1, 2, 3>>,
     [Sample17B EXCEPT ![1] = 0], [Sample17B EXCEPT ![14] = 0]}

\* Mappings with one or two other identifiers, with and without 0xFFFF
MixedMappings ==
    {(k :> other) @@ (MANUFACTURER_ID :> main) :
        k \in OtherIdentifiers, other \in OtherPayloads, main \in MainPayloads}
    \cup {(k :> other) : k \in OtherIdentifiers, other \in OtherPayloads}
    \cup {(0 :> other) @@ (76 :> Sample21) @@ (MANUFACTURER_ID :> main) :
            other \in OtherPayloads, main \in MainPayloads}
    \cup {(0 :> other) @@ (65534 :> Sample17) : other \in OtherPayloads}

\* Byte strings of every length up to MaxPayloadLen: one byte repeated, and
\* the 14 FF FF FF header or a marker followed by one byte repeated
RepeatedBytes == {0, 20, SEPARATOR, ELEHANT_MARKER, 255}

Repeated(b, n) == [i \in 1..n |-> b]

AnyLengthPayloads ==
    {Repeated(b, n) : b \in RepeatedBytes, n \in 0..MaxPayloadLen}
    \cup {Slice(<<20, 255, 255, 255, ELEHANT_MARKER>> \o Repeated(b, MaxPayloadLen), 0, n) :
            b \in {SEPARATOR, ELEHANT_MARKER}, n \in 1..MaxPayloadLen}
    \cup {Slice(<<ELEHANT_MARKER>> \o Repeated(SEPARATOR, MaxPayloadLen), 0, n) :
            n \in 1..MaxPayloadLen}

\* The two accepted frames cut short at every length, and with every single
\* byte replaced
DamagedFrames ==
    {Slice(Sample17, 0, n) : n \in 0..17}
    \cup {Slice(Sample21, 0, n) : n \in 0..21}
    \cup {[Sample17 EXCEPT ![i] = b] : i \in 1..17, b \in {0, 255}}
    \cup {[Sample21 EXCEPT ![i] = b] : i \in 1..21, b \in {0, 255}}

MappingInputs ==
    {DecodeInput(manufacturer_data, None) :
        manufacturer_data \in MixedMappings \cup {<< >>}}
    \cup {DecodeInput(MANUFACTURER_ID :> data, None) :
            data \in AnyLengthPayloads \cup DamagedFrames}

InitMapping ==
    /\ now = 0
    /\ seen_devices = << >>
    /\ seen_order = << >>
    /\ coordinators = << >>
    /\ dispatched = << >>
    /\ recent = << >>
    /\ observed = << >>
    /\ frames = [t \in Contexts |-> [pc |-> "idle"]]
    /\ raised = None
    /\ dropped = {}
    /\ InitAutoDiscover
    /\ call \in {[fn |-> "parse_meter_data", pc |-> "called",
                  manufacturer_data |-> input.manufacturer_data,
                  fields |-> input.fields, reads |-> << >>,
                  result |-> None] :
                     input \in MappingInputs}

NextMapping == ParseMeterData

SpecMapping == InitMapping /\ [][NextMapping]_vars

\* The tracker together with the sensor platform that registers coordinators
NextConfigured ==
    \/ Next
    \/ \E serial \in ConfiguredSerials : SensorSetup(serial)

SpecConfigured == Init /\ [][NextConfigured]_vars

(***************************************************************************)
(* The tracker with coordinators registered for both meters, and           *)
(* advertisements whose payload names another meter than their address     *)
(***************************************************************************)
NotifyAdvertisements ==
    { Adv(MacA, PayloadBad, 0 - 80),
      Adv(MacA, PayloadNew, 0 - 60),
      Adv(MacB, PayloadB, 0 - 70),
      Adv(MacA, PayloadB, 0 - 65),
      Adv(MacB, PayloadOld, 0 - 75),
      Adv(MacForeign, PayloadNew, 0 - 50) }

\* Serials a meter may be configured for
NotifySerials == {SerialA, SerialB}

NextNotify ==
    \/ \E service_info \in NotifyAdvertisements : DetectionCallback(service_info)
    \/ \E serial \in NotifySerials : SensorSetup(serial)

SpecNotify == Init /\ [][NextNotify]_vars

(***************************************************************************)
(* ElehantAutoDiscover (autodiscover.py), the asyncio task that runs its   *)
(* _scan_loop, and the steps of the config flow that drive it              *)
(* (config_flow.py).  Everything runs on the one event loop: a handler     *)
(* runs from one await to the next without interruption.                   *)
(***************************************************************************)
\* self.max_logs
MAX_LOGS == 8
\* get_recent_devices(hours=24)
RECENT_HOURS == 24
\* asyncio.sleep(5)
SleepSeconds == 5

\* The timeout the scan is run with.  The flow passes timeout=300, sixty
\* sleeps; the loop is the same for any value.
ScanTimeout == 10
\* The clock runs at least this far: late enough for a scan to reach its
\* timeout
MaxScanSeconds == ScanTimeout + SleepSeconds

\* time.time(): a float, kept as whole seconds and tenths
Time == [sec |-> now, tenths |-> now_fraction]

Tenths(t) == t.sec * 10 + t.tenths

\* t plus a number of whole seconds
Later(t, seconds) == [sec |-> t.sec + seconds, tenths |-> t.tenths]

\* Mutant: the elapsed time is rounded up to the next whole second
CeilingOfTenths(x) == (x + 9) \div 10

\* int(x) of a float given in tenths: truncation toward zero
IntOfTenths(x) == IF x >= 0 THEN x \div 10 ELSE 0 - ((0 - x) \div 10)

\* int(time.time() - self.start_time)
Elapsed(time, start) == IntOfTenths(Tenths(time) - Tenths(start))

\* time.strftime("%H:%M:%S"): the time of day, whole seconds (UTC)
TimeOfDay(seconds) == seconds % 86400

\* The messages of the log, by their text and the values formatted into it
MessageStarted == [text |-> "scan started"]
MessageFound(count) == [text |-> "found new devices", count |-> count]
MessageDevice(dev) ==
    [text |-> "device",
     device_type |-> IF dev["device_type"] = "gas" THEN "gas" ELSE "water",
     serial |-> dev["serial"], model |-> dev["model"],
     rssi |-> dev["best_rssi"]]
MessageTimeout(timeout) == [text |-> "timeout reached", timeout |-> timeout]
MessageStopped == [text |-> "stopped by user"]

\* f"{timestamp} - {message}"
LogLine(seconds, message) ==
    [timestamp |-> TimeOfDay(seconds), message |-> message]

\* Mutant: the buffer keeps its first max_logs lines
add_log_keep_oldest(log, line) ==
    IF Len(log) >= MAX_LOGS THEN log ELSE Append(log, line)

\* add_log: log_messages after the line is appended and the buffer cut to
\* its last max_logs lines
add_log(log, line) ==
    LET appended == Append(log, line)
    IN  IF Len(appended) > MAX_LOGS
        THEN SubSeq(appended, Len(appended) - MAX_LOGS + 1, Len(appended))
        ELSE appended

\* Several add_log calls in a row
RECURSIVE add_logs(_, _)
add_logs(log, lines) ==
    IF Len(lines) = 0 THEN log
    ELSE add_logs(add_log(log, Head(lines)), Tail(lines))

\* The callbacks the flow registers with on_update and on_stop before it
\* calls start_scan.  Both are `async def` functions.
UPDATE_CALLBACK == "on_update"
STOP_CALLBACK == "on_stop"

\* add_log called for each of the messages: the buffer, and one
\* call_soon_threadsafe(self._update_callback) per call; then the callbacks
\* of `then` are handed to the loop
AddLogs(messages, then) ==
    LET lines == [i \in 1..Len(messages) |-> LogLine(now, messages[i])]
    IN  /\ log_messages' = add_logs(log_messages, lines)
        /\ added' = added \o lines
        /\ loop_calls' = loop_calls
                            \o [i \in 1..Len(messages) |-> UPDATE_CALLBACK]
                            \o then

\* asyncio.Task.done()
TaskDone(t) == tasks[t].state \in {"finished", "cancelled"}

\* ElehantAutoDiscover.is_scanning
is_scanning == scan_task # None /\ ~TaskDone(scan_task.task)

\* self.flow._async_current_ids(): the unique ids of the config entries of
\* the domain, None for an entry created by a flow that set none
async_current_ids == {entries[i].unique_id : i \in 1..Len(entries)}

\* str(serial), as a unique id
UniqueId(serial) == [str |-> ToString(serial)]

\* start_scan: the clock is read, the log reset and the start message added,
\* and a task is created for _scan_loop; the task has not run yet
StartScan ==
    /\ start_time = None
    /\ start_time' = Time
    /\ duration' = 0
    /\ log_messages' = add_log(<< >>, LogLine(now, MessageStarted))
    /\ added' = <<LogLine(now, MessageStarted)>>
    /\ loop_calls' = Append(loop_calls, UPDATE_CALLBACK)
    /\ tasks' = Append(tasks, [state |-> "created", wake_at |-> None,
                               must_cancel |-> FALSE])
    /\ scan_task' = [task |-> Len(tasks) + 1]
    /\ stopped' = FALSE
    /\ UNCHANGED <<now, now_fraction, discovered_devices, coroutines,
                   flow_inputs, flow_discovered, config_vars, announced,
                   scanner_vars>>

\* async_step_auto_discover(user_input=None): the flow creates the
\* ElehantAutoDiscover, registers on_update and on_stop, awaits start_scan
\* and shows the progress step
AsyncStepAutoDiscover ==
    /\ flow_step = "user"
    /\ StartScan
    /\ flow_step' = "auto_discover_progress"

\* The task runs for the first time: _scan_loop enters its loop and sleeps
TaskStart(t) ==
    /\ tasks[t].state = "created"
    /\ ~tasks[t].must_cancel
    /\ tasks' = [tasks EXCEPT ![t].state = "sleeping",
                              ![t].wake_at = Later(Time, SleepSeconds)]
    /\ UNCHANGED <<now, now_fraction, discovered_devices, scan_task,
                   start_time, duration, log_messages, loop_calls, coroutines,
                   flow_step, flow_inputs, flow_discovered, config_vars, added,
                   announced, stopped, scanner_vars>>

\* Variant: a device counts as known when its MAC is in the list
NotInByMac(dev, devices) ==
    \A i \in 1..Len(devices) : devices[i]["mac"] # dev["mac"]

\* dev not in self.discovered_devices: no dict of the list equals dev
NotIn(dev, devices) == \A i \in 1..Len(devices) : devices[i] # dev

\* The devices of `recent` that no config entry has the unique id of
NewDevices(recent_devices) ==
    SelectSeq(recent_devices,
              LAMBDA dev : UniqueId(dev["serial"]) \notin async_current_ids)

\* The devices of new_devices that are not in discovered_devices
TrulyNew(new_devices) ==
    SelectSeq(new_devices, LAMBDA dev : NotIn(dev, discovered_devices))

\* One pass of the loop of _scan_loop, from the end of its sleep to the
\* next sleep or to the break
ScanIteration(t) ==
    LET listed == get_recent_devices(seen_order, seen_devices, now, RECENT_HOURS)
        recent_devices == [i \in 1..Len(listed) |-> listed[i].dict]
        new_devices == NewDevices(recent_devices)
        truly_new == TrulyNew(new_devices)
        found == Len(new_devices) > 0 /\ Len(truly_new) > 0
        found_messages ==
            IF found
            THEN <<MessageFound(Len(truly_new))>>
                 \o [i \in 1..Len(truly_new) |-> MessageDevice(truly_new[i])]
            ELSE << >>
        elapsed == Elapsed(Time, start_time)
    IN  /\ tasks[t].state = "sleeping"
        /\ ~tasks[t].must_cancel
        /\ Tenths(Time) >= Tenths(tasks[t].wake_at)
        /\ discovered_devices' = IF found THEN new_devices ELSE discovered_devices
        /\ announced' = IF found
                        THEN announced \o [i \in 1..Len(truly_new) |-> truly_new[i]["mac"]]
                        ELSE announced
        /\ duration' = elapsed
        /\ IF elapsed > ScanTimeout
           THEN /\ AddLogs(Append(found_messages, MessageTimeout(ScanTimeout)),
                           <<STOP_CALLBACK>>)
                /\ tasks' = [tasks EXCEPT ![t].state = "finished"]
           ELSE /\ AddLogs(found_messages, << >>)
                /\ tasks' = [tasks EXCEPT ![t].wake_at = Later(Time, SleepSeconds)]
        /\ UNCHANGED <<now, now_fraction, scan_task, start_time, coroutines,
                       flow_step, flow_inputs, flow_discovered, config_vars,
                       stopped, scanner_vars>>

\* The CancelledError of a cancelled task is raised at its await.  A task
\* that never ran is cancelled without running; in _scan_loop the handler
\* of the sleep adds the log line and raises the error again.
CancelDelivered(t) ==
    /\ tasks[t].must_cancel
    /\ ~TaskDone(t)
    /\ IF tasks[t].state = "sleeping"
       THEN AddLogs(<<MessageStopped>>, << >>)
       ELSE UNCHANGED <<log_messages, added, loop_calls>>
    /\ tasks' = [tasks EXCEPT ![t].state = "cancelled"]
    /\ UNCHANGED <<now, now_fraction, discovered_devices, scan_task,
                   start_time, duration, coroutines, flow_step, flow_inputs,
                   flow_discovered,
                   config_vars, announced, stopped, scanner_vars>>

\* The event loop calls the next callback call_soon_threadsafe was given.
\* Calling an `async def` function runs none of its body: it returns a
\* coroutine object, the loop drops the value its callback returns, and
\* nothing awaits the coroutine.
RunScheduled ==
    /\ Len(loop_calls) > 0
    /\ loop_calls' = Tail(loop_calls)
    /\ coroutines' = Append(coroutines, Head(loop_calls))
    /\ UNCHANGED <<now, now_fraction, discovered_devices, scan_task,
                   start_time, duration, log_messages, tasks, flow_step,
                   flow_inputs, flow_discovered, config_vars, added, announced,
                   stopped, scanner_vars>>

\* Mutant: stop_scan drops its reference to the task without cancelling it
stop_scan_forgetful ==
    /\ scan_task' = None
    /\ UNCHANGED tasks

\* stop_scan: a task that is not done is cancelled and the reference to it
\* dropped
stop_scan ==
    IF scan_task # None /\ ~TaskDone(scan_task.task)
    THEN /\ tasks' = [tasks EXCEPT ![scan_task.task].must_cancel = TRUE]
         /\ scan_task' = None
    ELSE UNCHANGED <<tasks, scan_task>>

\* stop_scan() called on the object
StopScan ==
    /\ stop_scan
    /\ stopped' = TRUE
    /\ UNCHANGED <<now, now_fraction, discovered_devices, start_time, duration,
                   log_messages, loop_calls, coroutines, flow_step, flow_inputs,
                   flow_discovered,
                   config_vars, added, announced, scanner_vars>>

\* The user input async_configure is called with while the progress step
\* is shown: {"stop": ...} from the user.  (Called with None the step shows
\* the progress again and changes nothing.)
ProgressInputs == {[stop |-> TRUE]}

\* async_step_auto_discover_progress(user_input), with the
\* async_step_auto_discover_done it goes on to.  {"stop": ...} stops the
\* scan; auto_discover_done, which {"timeout": ...} goes on to as well, calls
\* stop_scan (once more), and hands the discovered devices to the flow.
AsyncStepAutoDiscoverProgress(user_input) ==
    /\ flow_step = "auto_discover_progress"
    /\ flow_inputs' = Append(flow_inputs, user_input)
    /\ IF scan_task # None /\ TaskDone(scan_task.task)
          /\ tasks[scan_task.task].state = "cancelled"
       THEN /\ flow_step' = "abort: scan_cancelled"
            /\ UNCHANGED <<tasks, scan_task, flow_discovered, stopped>>
       ELSE IF \/ "stop" \in DOMAIN user_input /\ user_input.stop
               \/ "timeout" \in DOMAIN user_input /\ user_input.timeout
       THEN /\ stop_scan
            /\ stopped' = TRUE
            /\ IF Len(discovered_devices) = 0
               THEN /\ flow_step' = "abort: no_devices_found"
                    /\ UNCHANGED flow_discovered
               ELSE /\ flow_step' = "select_devices"
                    /\ flow_discovered' = discovered_devices
       ELSE UNCHANGED <<tasks, scan_task, flow_step, flow_discovered, stopped>>
    /\ UNCHANGED <<now, now_fraction, discovered_devices, start_time, duration,
                   log_messages, loop_calls, coroutines, config_vars, added,
                   announced, scanner_vars>>

\* Time passes: the length of a sleep.  The clock is followed from
\* start_scan on; it runs to MaxScanSeconds and on to the end of a sleep that
\* is under way.
Advance ==
    /\ start_time # None
    /\ \/ now < MaxScanSeconds
       \/ \E t \in DOMAIN tasks :
             /\ tasks[t].state = "sleeping"
             /\ Tenths(Time) < Tenths(tasks[t].wake_at)
    /\ now' = now + SleepSeconds
    /\ UNCHANGED <<scanner_vars, discover_vars>>

\* Time passes: half a second, once, so that the clock is read between
\* whole seconds
HalfSecond ==
    /\ now_fraction = 0
    /\ now_fraction' = 5
    /\ UNCHANGED <<now, scanner_vars, discovered_devices, scan_task,
                   start_time, duration, log_messages, tasks, loop_calls,
                   coroutines, flow_step, flow_inputs, flow_discovered,
                   config_vars, added, announced, stopped>>

\* The advertisements on the air during a scan
ScanAdvertisements ==
    { Adv(MacA, PayloadNew, 0 - 60),
      Adv(MacB, PayloadB, 0 - 70) }

NextScan ==
    \/ AsyncStepAutoDiscover
    \/ \E t \in DOMAIN tasks : TaskStart(t)
    \/ \E t \in DOMAIN tasks : ScanIteration(t)
    \/ \E t \in DOMAIN tasks : CancelDelivered(t)
    \/ RunScheduled
    \/ StopScan
    \/ \E user_input \in ProgressInputs : AsyncStepAutoDiscoverProgress(user_input)
    \/ Advance
    \/ \E service_info \in ScanAdvertisements : DetectionCallback(service_info)

SpecScan == Init /\ [][NextScan]_vars

\* The clock runs, the event loop runs every task and callback that is
\* ready; the user and the advertisers are free to do nothing
FairScan ==
    /\ WF_vars(Advance)
    /\ WF_vars(\E t \in DOMAIN tasks : TaskStart(t))
    /\ WF_vars(\E t \in DOMAIN tasks : ScanIteration(t))
    /\ WF_vars(\E t \in DOMAIN tasks : CancelDelivered(t))
    /\ WF_vars(RunScheduled)

\* An advertisement that arrives before the scan is started
AdvertisedBeforeScan(service_info) ==
    /\ start_time = None
    /\ DetectionCallback(service_info)

\* The scan with the advertisers silent while it runs
NextTermination ==
    \/ AsyncStepAutoDiscover
    \/ \E t \in DOMAIN tasks : TaskStart(t)
    \/ \E t \in DOMAIN tasks : ScanIteration(t)
    \/ \E t \in DOMAIN tasks : CancelDelivered(t)
    \/ RunScheduled
    \/ StopScan
    \/ \E user_input \in ProgressInputs : AsyncStepAutoDiscoverProgress(user_input)
    \/ Advance
    \/ HalfSecond
    \/ \E service_info \in ScanAdvertisements : AdvertisedBeforeScan(service_info)

SpecTermination == Init /\ [][NextTermination]_vars /\ FairScan

(***************************************************************************)
(* add_log and start_scan called on an ElehantAutoDiscover                 *)
(***************************************************************************)
\* The lines added to one buffer: more than max_logs
MaxLogCalls == 10

\* The messages add_log is called with
LogMessages == {MessageStopped, MessageFound(1)}

\* add_log(message)
AddLogCall(message) ==
    /\ Len(added) < MaxLogCalls
    /\ AddLogs(<<message>>, << >>)
    /\ UNCHANGED <<now, now_fraction, discovered_devices, scan_task,
                   start_time, duration, tasks, coroutines, flow_step,
                   flow_inputs, flow_discovered,
                   config_vars, announced, stopped,
                   scanner_vars>>

\* start_scan() called on the object
StartScanCall ==
    /\ StartScan
    /\ UNCHANGED flow_step

NextLog ==
    \/ \E message \in LogMessages : AddLogCall(message)
    \/ StartScanCall

SpecLog == Init /\ [][NextLog]_vars

(***************************************************************************)
(* Config flows: one that discovers, manual ones beside it                 *)
(***************************************************************************)
\* The config entries created
MaxEntries == 3

\* The times the configure_devices form is submitted
MaxConfigureCalls == 2

\* The serials typed into the manual form
ManualSerials == {SerialA, SerialB}

\* The selections the user can make in the select_devices form
Selections == SUBSET {MacA, MacB}

\* async_step_manual_add(user_input) of a flow of its own: the unique id
\* of the flow is set to str(serial); the flow aborts when an entry has
\* that unique id, and creates an entry with the one meter otherwise
ManualAdd(serial) ==
    /\ Len(entries) < MaxEntries
    /\ UniqueId(serial) \notin async_current_ids
    /\ entries' = Append(entries, [unique_id |-> UniqueId(serial),
                                   meters |-> <<serial>>])
    /\ UNCHANGED <<now, now_fraction, discovered_devices, scan_task,
                   start_time, duration, log_messages, tasks, loop_calls,
                   coroutines, flow_step, flow_inputs, flow_discovered,
                   selected_devices, errors, added, announced, stopped,
                   scanner_vars, lifecycle_vars>>

\* async_step_select_devices(user_input), with the
\* async_step_configure_devices(None) it goes on to, which shows the form
SelectDevices(selected_macs) ==
    /\ flow_step = "select_devices"
    /\ flow_inputs' = Append(flow_inputs, [devices |-> selected_macs])
    /\ IF selected_macs = {}
       THEN /\ flow_step' = "abort: no_devices_selected"
            /\ UNCHANGED <<selected_devices, errors>>
       ELSE /\ selected_devices' =
                  SelectSeq(flow_discovered,
                            LAMBDA dev : dev["mac"] \in selected_macs)
            /\ errors' = {}
            /\ flow_step' = "configure_devices"
    /\ UNCHANGED <<now, now_fraction, discovered_devices, scan_task,
                   start_time, duration, log_messages, tasks, loop_calls,
                   coroutines, flow_discovered, entries, added, announced,
                   stopped, scanner_vars, lifecycle_vars>>

\* The meters configure_devices collects: the serials of the selected
\* devices that str(serial) is not a current unique id of
MetersToCreate ==
    LET kept == SelectSeq(selected_devices,
                          LAMBDA dev :
                              UniqueId(dev["serial"]) \notin async_current_ids)
    IN  [i \in 1..Len(kept) |-> kept[i]["serial"]]

\* async_step_configure_devices(user_input): one entry with the meters
\* collected, which no unique id was set for; with none collected the form
\* is shown again with the error
ConfigureDevices ==
    /\ flow_step = "configure_devices"
    /\ Len(entries) < MaxEntries
    /\ Cardinality({i \in 1..Len(flow_inputs) :
                        "names" \in DOMAIN flow_inputs[i]}) < MaxConfigureCalls
    /\ flow_inputs' = Append(flow_inputs, [names |-> TRUE])
    /\ IF Len(MetersToCreate) > 0
       THEN /\ entries' = Append(entries, [unique_id |-> None,
                                           meters |-> MetersToCreate])
            /\ flow_step' = "create_entry"
            /\ errors' = {}
       ELSE /\ errors' = {<<"base", "all_devices_configured">>}
            /\ UNCHANGED <<entries, flow_step>>
    /\ UNCHANGED <<now, now_fraction, discovered_devices, scan_task,
                   start_time, duration, log_messages, tasks, loop_calls,
                   coroutines, flow_discovered, selected_devices, added,
                   announced, stopped, scanner_vars, lifecycle_vars>>

NextFlow ==
    \/ AsyncStepAutoDiscover
    \/ \E t \in DOMAIN tasks : TaskStart(t)
    \/ \E t \in DOMAIN tasks : ScanIteration(t)
    \/ \E t \in DOMAIN tasks : CancelDelivered(t)
    \/ RunScheduled
    \/ \E user_input \in ProgressInputs : AsyncStepAutoDiscoverProgress(user_input)
    \/ Advance
    \/ \E service_info \in ScanAdvertisements : AdvertisedBeforeScan(service_info)
    \/ \E selected_macs \in Selections : SelectDevices(selected_macs)
    \/ ConfigureDevices
    \/ \E serial \in ManualSerials : ManualAdd(serial)

SpecFlow == Init /\ [][NextFlow]_vars

(***************************************************************************)
(* ElehantHistoryScanner.start and stop, and the advertisements the        *)
(* Bluetooth API hands to the callbacks registered with it                 *)
(***************************************************************************)
\* The start() calls made on one scanner
MaxStarts == 2

\* The registrations that were not cancelled
ActiveRegistrations ==
    {r \in DOMAIN registrations : registrations[r]}

\* Variant: start() does nothing while a registration is held
start_once ==
    IF cancel_callback = None
    THEN /\ registrations' = Append(registrations, TRUE)
         /\ cancel_callback' = [registration |-> Len(registrations) + 1]
    ELSE UNCHANGED <<registrations, cancel_callback>>

\* start: async_register_callback registers _detection_callback once more
\* and returns the function that cancels this registration, which is
\* stored in _cancel_callback
start ==
    /\ registrations' = Append(registrations, TRUE)
    /\ cancel_callback' = [registration |-> Len(registrations) + 1]

\* stop: the stored function, if there is one, is called and forgotten
stop ==
    IF cancel_callback # None
    THEN /\ registrations' =
              [registrations EXCEPT ![cancel_callback.registration] = FALSE]
         /\ cancel_callback' = None
    ELSE UNCHANGED <<registrations, cancel_callback>>

\* await scanner.start()
ScannerStart ==
    /\ Len(registrations) < MaxStarts
    /\ start
    /\ UNCHANGED <<now, scanner_vars, autodiscover_vars, scanner_key,
                   meter_configs, coordinator_ids, entities, setups,
                   setup_calls>>

\* await scanner.stop()
ScannerStop ==
    /\ stop
    /\ UNCHANGED <<now, scanner_vars, autodiscover_vars, scanner_key,
                   meter_configs, coordinator_ids, entities, setups,
                   setup_calls>>

\* The Bluetooth API calls the callback of an active registration with an
\* advertisement it received
Advertised(r, service_info) ==
    /\ r \in ActiveRegistrations
    /\ DetectionCallback(service_info)

NextRegistration ==
    \/ ScannerStart
    \/ ScannerStop
    \/ \E r \in DOMAIN registrations, service_info \in ScanAdvertisements :
          Advertised(r, service_info)
    \/ Tick

SpecRegistration == Init /\ [][NextRegistration]_vars

(***************************************************************************)
(* The integration set up and unloaded (__init__.py), with the sensor      *)
(* platform (sensor.py).  __init__.py imports ElehantScanner, a name       *)
(* scanner.py does not define; the scanner under hass.data[DOMAIN] that    *)
(* the config flow and _notify_meter_update work with is the               *)
(* ElehantHistoryScanner, and that is the class the calls are made on.     *)
(***************************************************************************)
\* The async_setup_entry calls made
MaxSetupCalls == 3

SENSOR_TYPE_METER == "meter"
SENSOR_TYPE_TEMPERATURE == "temperature"
SENSOR_TYPE_BATTERY == "battery"

\* The sensors created for a meter, in their order
SensorTypes ==
    <<SENSOR_TYPE_METER, SENSOR_TYPE_TEMPERATURE, SENSOR_TYPE_BATTERY>>

\* The serials of the "meter_<serial>" keys, in the order of the dict
MeterSerials(configs) == [k \in 1..Len(configs) |-> configs[k].serial]

\* hass.data[DOMAIN][f"meter_{serial}"] = meter_config: a key the dict has
\* keeps its place, a new one comes last
StoreMeter(configs, config) ==
    IF \E k \in 1..Len(configs) : configs[k].serial = config.serial
    THEN [k \in 1..Len(configs) |->
             IF configs[k].serial = config.serial THEN config ELSE configs[k]]
    ELSE Append(configs, config)

\* The loop of async_setup_entry over the meters of the entry
RECURSIVE StoreMeters(_, _, _)
StoreMeters(configs, entry, serials) ==
    IF Len(serials) = 0 THEN configs
    ELSE StoreMeters(StoreMeter(configs, [serial |-> Head(serials),
                                          entry |-> entry]),
                     entry, Tail(serials))

\* Variant: the sensor platform takes the meters of its entry only
MetersOfEntry(configs, entry) ==
    SelectSeq(configs, LAMBDA config : config.entry = entry)

\* The meters sensor.async_setup_entry goes through: every "meter_" key of
\* hass.data[DOMAIN]
MetersSetUp(configs, entry) == configs

\* The coordinator created for a meter by the setup call of that number
Coordinator(number, serial) == [created_by |-> number, serial |-> serial]

\* sensor.async_setup_entry, for the platform of an entry: a new
\* coordinator is stored under "coordinator_<serial>" for each meter, and
\* three sensors on it are created and given to async_add_entities
SensorAsyncSetupEntry(configs, entry, number) ==
    LET meters == MeterSerials(MetersSetUp(configs, entry))
        serials == {meters[k] : k \in 1..Len(meters)}
    IN  /\ coordinators' =
              [s \in DOMAIN coordinators \cup serials |->
                  IF s \in serials THEN << >> ELSE coordinators[s]]
        /\ coordinator_ids' =
              [s \in DOMAIN coordinator_ids \cup serials |->
                  IF s \in serials THEN Coordinator(number, s)
                  ELSE coordinator_ids[s]]
        /\ entities' = entities \o
              [n \in 1..(3 * Len(meters)) |->
                  [serial |-> meters[((n - 1) \div 3) + 1],
                   sensor_type |-> SensorTypes[((n - 1) % 3) + 1],
                   coordinator |-> Coordinator(number, meters[((n - 1) \div 3) + 1]),
                   entry |-> entry]]

\* __init__.async_setup_entry(hass, entry).  Without a "scanner" key a
\* scanner is created and stored, and scanner.start(adapter=...) raises
\* TypeError, start(self) having no such parameter.  With the key the
\* meters of the entry are stored, the sensor platform is set up, and
\* scanner.async_add_listener raises AttributeError, the scanner having no
\* such attribute.
AsyncSetupEntry(i) ==
    /\ i \in 1..Len(entries)
    /\ setup_calls < MaxSetupCalls
    /\ setup_calls' = setup_calls + 1
    /\ setups' = setups \cup {i}
    /\ IF ~scanner_key
       THEN /\ scanner_key' = TRUE
            /\ seen_devices' = << >>
            /\ seen_order' = << >>
            /\ cancel_callback' = None
            /\ raised' = [py_raise |-> "TypeError"]
            /\ UNCHANGED <<meter_configs, coordinators, coordinator_ids,
                           entities>>
       ELSE /\ meter_configs' = StoreMeters(meter_configs, i, entries[i].meters)
            /\ SensorAsyncSetupEntry(meter_configs', i, setup_calls')
            /\ raised' = [py_raise |-> "AttributeError"]
            /\ UNCHANGED <<scanner_key, seen_devices, seen_order,
                           cancel_callback>>
    /\ UNCHANGED <<now, dispatched, recent, observed, frames, call, dropped,
                   autodiscover_vars, registrations>>

\* __init__.async_unload_entry(hass, entry): the platforms of the entry are
\* unloaded, which removes the entities that were added for it; when the
\* domain has one config entry the scanner is stopped and its key removed;
\* every "meter_" key is removed
AsyncUnloadEntry(i) ==
    /\ i \in setups
    /\ setups' = setups \ {i}
    /\ entities' = SelectSeq(entities, LAMBDA entity : entity.entry # i)
    /\ IF Len(entries) = 1
       THEN /\ IF scanner_key THEN stop
                              ELSE UNCHANGED <<registrations, cancel_callback>>
            /\ scanner_key' = FALSE
       ELSE UNCHANGED <<registrations, cancel_callback, scanner_key>>
    /\ meter_configs' = << >>
    /\ raised' = None
    /\ UNCHANGED <<now, seen_devices, seen_order, coordinators, dispatched,
                   recent, observed, frames, call, dropped, autodiscover_vars,
                   coordinator_ids, setup_calls>>

NextLifecycle ==
    \/ \E serial \in ManualSerials : ManualAdd(serial)
    \/ \E i \in 1..Len(entries) : AsyncSetupEntry(i)
    \/ \E i \in 1..Len(entries) : AsyncUnloadEntry(i)

SpecLifecycle == Init /\ [][NextLifecycle]_vars

(***************************************************************************)
(* History of the observations recorded so far                             *)
(***************************************************************************)
Macs == {a.address : a \in Advertisements}

ObsOf(mac) == {i \in 1..Len(observed) : observed[i].mac = mac}

ReadingsOf(mac) == {i \in ObsOf(mac) : observed[i].parsed # None}

Max(S) == CHOOSE x \in S : \A y \in S : y <= x
Min(S) == CHOOSE x \in S : \A y \in S : x <= y

\* Did this step record an observation of mac?
Recorded(mac) ==
    /\ Len(observed') = Len(observed) + 1
    /\ observed'[Len(observed')].mac = mac

(***************************************************************************)
(* Claims                                                                  *)
(***************************************************************************)
\* C1: a record exists for a MAC exactly when an observation of that MAC was
\* recorded, and its packets count is the number of observations recorded
\* for the MAC, those with no reading included.
C1_PacketsCountObservations ==
    /\ DOMAIN seen_devices \subseteq Macs
    /\ \A mac \in Macs :
          /\ mac \in DOMAIN seen_devices <=> ObsOf(mac) # {}
          /\ mac \in DOMAIN seen_devices =>
                seen_devices[mac].packets = Cardinality(ObsOf(mac))

\* A MAC observed twice, once with a payload that did not decode
C1_Witness ==
    \E mac \in DOMAIN seen_devices :
        /\ seen_devices[mac].packets = 2
        /\ \E i \in ObsOf(mac) : observed[i].parsed = None
        /\ \E i \in ObsOf(mac) : observed[i].parsed # None

\* C2: best_rssi is the maximum signal strength over all observations
\* recorded for the MAC, the first included, and never decreases.
C2_BestRssiIsMaximum ==
    /\ [](\A mac \in DOMAIN seen_devices :
            seen_devices[mac].best_rssi =
                Max({observed[i].rssi : i \in ObsOf(mac)}))
    /\ [][\A mac \in DOMAIN seen_devices :
            /\ mac \in DOMAIN seen_devices'
            /\ seen_devices'[mac].best_rssi >= seen_devices[mac].best_rssi]_vars

\* A stronger signal followed by a weaker one: the stronger is kept
C2_Witness ==
    \E mac \in DOMAIN seen_devices :
        /\ Cardinality(ObsOf(mac)) = 2
        /\ observed[Max(ObsOf(mac))].rssi < observed[Min(ObsOf(mac))].rssi
        /\ seen_devices[mac].best_rssi = observed[Min(ObsOf(mac))].rssi

\* C3: last_seen of a record never decreases from one state to the next,
\* whatever timestamps the observations carry.
C3_LastSeenNeverDecreases ==
    [][\A mac \in DOMAIN seen_devices :
          /\ mac \in DOMAIN seen_devices'
          /\ seen_devices'[mac].last_seen >= seen_devices[mac].last_seen]_vars

Reading(device_info) ==
    [k \in DOMAIN device_info \cap {"last_value", "last_temperature", "last_raw"}
        |-> device_info[k]]

NoReading == [k \in {} |-> 0]

\* C4: an observation with no reading creates the record (with no last
\* reading at all) or updates last_seen, packets and best_rssi, and leaves
\* the stored last reading exactly as it was.
C4_NoneReadingKeepsLastReading ==
    [][\A mac \in Macs :
          (Recorded(mac) /\ observed'[Len(observed')].parsed = None) =>
             LET obs == observed'[Len(observed')]
                 after == seen_devices'[mac]
             IN  /\ mac \in DOMAIN seen_devices'
                 /\ after.last_seen = obs.timestamp
                 /\ IF mac \in DOMAIN seen_devices
                    THEN /\ after.packets = seen_devices[mac].packets + 1
                         /\ after.best_rssi =
                                Max({seen_devices[mac].best_rssi, obs.rssi})
                         /\ Reading(after) = Reading(seen_devices[mac])
                    ELSE /\ after.packets = 1
                         /\ after.best_rssi = obs.rssi
                         /\ Reading(after) = NoReading]_vars

\* A record that holds a reading although the latest observation of its MAC
\* carried none
C4_Witness ==
    \E mac \in DOMAIN seen_devices :
        /\ Cardinality(ObsOf(mac)) = 2
        /\ observed[Max(ObsOf(mac))].parsed = None
        /\ observed[Min(ObsOf(mac))].parsed # None
        /\ Reading(seen_devices[mac]) =
              [last_value |-> observed[Min(ObsOf(mac))].parsed.value,
               last_temperature |-> observed[Min(ObsOf(mac))].parsed.temperature,
               last_raw |-> observed[Min(ObsOf(mac))].parsed.raw_data]

\* C5: the stored reading fields all come from the most recently recorded
\* observation of the MAC that carried a reading, whatever the sequence
\* numbers, values or timestamps of the readings.
C5_LastWriteWins ==
    \A mac \in Macs :
        ReadingsOf(mac) # {} =>
            /\ mac \in DOMAIN seen_devices
            /\ LET last == observed[Max(ReadingsOf(mac))].parsed
               IN  Reading(seen_devices[mac]) =
                      [last_value |-> last.value,
                       last_temperature |-> last.temperature,
                       last_raw |-> last.raw_data]

\* A reading with an older sequence number recorded after a newer one: the
\* older one is what the record holds
C5_Witness ==
    \E mac \in DOMAIN seen_devices :
        /\ Cardinality(ReadingsOf(mac)) = 2
        /\ observed[Max(ReadingsOf(mac))].parsed.sequence
              < observed[Min(ReadingsOf(mac))].parsed.sequence
        /\ seen_devices[mac].last_value = observed[Max(ReadingsOf(mac))].parsed.value
        /\ seen_devices[mac].last_value # observed[Min(ReadingsOf(mac))].parsed.value

\* The entries of a returned list that belong to mac
EntriesOf(seen, list, mac) ==
    {i \in 1..Len(list) : Deref(seen, list[i]).mac = mac}

\* C6: recent(hours) at time now returns exactly one entry for every record
\* with last_seen >= now - hours * 3600, the cutoff itself included, and no
\* entry for any other record.
C6_RecentIsExactlyTheWindow ==
    [][\A hours \in QueryHours :
          GetRecentDevices(hours) =>
             /\ \A i \in 1..Len(recent') :
                   Deref(seen_devices', recent'[i]).mac \in DOMAIN seen_devices
             /\ \A mac \in DOMAIN seen_devices :
                   IF seen_devices[mac].last_seen >= now - hours * SecondsPerHour
                   THEN \E i \in 1..Len(recent') :
                           /\ EntriesOf(seen_devices', recent', mac) = {i}
                           /\ Deref(seen_devices', recent'[i]) = seen_devices[mac]
                   ELSE EntriesOf(seen_devices', recent', mac) = {}]_vars

\* recent(1) holding the record seen exactly one hour ago and not the one
\* seen longer ago
C6_Witness ==
    /\ Cardinality(DOMAIN seen_devices) = 2
    /\ Len(recent) = 1
    /\ \E mac \in DOMAIN seen_devices :
          /\ seen_devices[mac].last_seen = now - SecondsPerHour
          /\ Deref(seen_devices, recent[1]) = seen_devices[mac]
    /\ \E mac \in DOMAIN seen_devices :
          /\ seen_devices[mac].last_seen < now - SecondsPerHour
          /\ EntriesOf(seen_devices, recent, mac) = {}

C9_InterleavingIsSafe ==
    /\ raised = None
    /\ \A i \in 1..Len(recent) :
          LET entry == Deref(seen_devices, recent[i])
          IN  /\ entry.packets >= 1
              /\ DOMAIN Reading(entry) \in
                    {{}, {"last_value", "last_temperature", "last_raw"}}
    /\ Busy = {} =>
          \A mac \in Macs :
             /\ mac \in DOMAIN seen_devices <=> ObsOf(mac) # {}
             /\ mac \in DOMAIN seen_devices =>
                   /\ seen_devices[mac].packets = Cardinality(ObsOf(mac))
                   /\ seen_devices[mac].best_rssi =
                         Max({observed[i].rssi : i \in ObsOf(mac)})

\* C10: one record per MAC, stored under its own mac; serial, model,
\* type_byte, device_type and first_seen are those of the first observation
\* of the MAC, whatever was observed later.
C10_IdentityFixedAtCreation ==
    /\ Len(seen_order) = Cardinality(DOMAIN seen_devices)
    /\ {seen_order[i] : i \in 1..Len(seen_order)} = DOMAIN seen_devices
    /\ \A mac \in DOMAIN seen_devices :
          LET first == observed[Min(ObsOf(mac))]
              record == seen_devices[mac]
          IN  /\ record.mac = mac
              /\ record.serial = first.mac_info.serial
              /\ record.model = first.mac_info.model
              /\ record.type_byte = first.mac_info.type_byte
              /\ record.device_type = first.mac_info.device_type
              /\ record.first_seen = first.timestamp

\* A record observed again at a later time: first_seen is still the time of
\* the first observation
C10_Witness ==
    \E mac \in DOMAIN seen_devices :
        /\ Cardinality(ObsOf(mac)) = 2
        /\ observed[Max(ObsOf(mac))].timestamp > observed[Min(ObsOf(mac))].timestamp
        /\ seen_devices[mac].first_seen = observed[Min(ObsOf(mac))].timestamp
        /\ seen_devices[mac].last_seen > seen_devices[mac].first_seen

\* C11: every advertisement whose address gives an identity and that
\* _detection_callback hands to the history is recorded exactly once,
\* decoded or not: the record of its MAC exists afterwards, counts one packet
\* more, has last_seen at the time of the call and the better of the two
\* signal strengths, and no other record changes.  A device none of whose payloads decoded is returned by
\* get_recent_devices, while it is in the window, with no last reading.
C11_UndecodedStillRecorded ==
    /\ [][\A ad \in Advertisements :
            (/\ Recorded(ad.address)
             /\ DetectionCallback(ad)
             /\ extract_info_from_mac(ad.address) # None) =>
               LET mac == ad.address IN
               /\ mac \in DOMAIN seen_devices'
               /\ DOMAIN seen_devices' = DOMAIN seen_devices \cup {mac}
               /\ seen_devices'[mac].packets =
                     (IF mac \in DOMAIN seen_devices
                      THEN seen_devices[mac].packets ELSE 0) + 1
               /\ seen_devices'[mac].last_seen = now
               /\ seen_devices'[mac].best_rssi =
                     (IF mac \in DOMAIN seen_devices
                      THEN Max({seen_devices[mac].best_rssi, ad.rssi})
                      ELSE ad.rssi)
               /\ \A other \in DOMAIN seen_devices \ {mac} :
                     seen_devices'[other] = seen_devices[other]]_vars
    /\ [][\A hours \in QueryHours :
            GetRecentDevices(hours) =>
               \A mac \in DOMAIN seen_devices :
                  (/\ ReadingsOf(mac) = {}
                   /\ seen_devices[mac].last_seen >= now - hours * SecondsPerHour) =>
                     \E i \in 1..Len(recent') :
                        /\ EntriesOf(seen_devices', recent', mac) = {i}
                        /\ Reading(Deref(seen_devices', recent'[i])) = NoReading]_vars

\* A device observed twice, neither payload decoded, returned by
\* get_recent_devices with both packets counted and no last reading
C11_Witness ==
    \E i \in 1..Len(recent) :
        LET entry == Deref(seen_devices, recent[i])
        IN  /\ Cardinality(ObsOf(entry.mac)) = 2
            /\ ReadingsOf(entry.mac) = {}
            /\ entry.packets = 2
            /\ Reading(entry) = NoReading

\* The advertisements _detection_callback has no identity for
Unparseable ==
    {ad \in Advertisements :
        \/ ad.address \in BLOCKED_MACS
        \/ ~StartsWith(ad.address, MAC_PREFIX)
        \/ extract_info_from_mac(ad.address) = None}

\* C12: an advertisement whose address is blocked, lacks the vendor prefix or
\* gives no identity leaves seen_devices unchanged; every record, and every
\* entry get_recent_devices returns, has a MAC that extract_info_from_mac
\* gives an identity for.
C12_UnparseableNeverRecorded ==
    /\ [](\A mac \in DOMAIN seen_devices :
            /\ extract_info_from_mac(mac) # None
            /\ mac \notin BLOCKED_MACS)
    /\ [](\A i \in 1..Len(recent) :
            extract_info_from_mac(Deref(seen_devices, recent[i]).mac) # None)
    /\ [][\A ad \in Unparseable :
            Deliver(ad) => /\ seen_devices' = seen_devices
                           /\ seen_order' = seen_order
                           /\ observed' = observed]_vars

\* The blocked address, a foreign one, one with five parts and one with a
\* part that is not hexadecimal have all been delivered, beside two meters
\* that were recorded and returned
C12_Witness ==
    /\ dropped = {MacBlocked, MacForeign, MacShort, MacNotHex}
    /\ DOMAIN seen_devices = {MacA, MacB}
    /\ Len(recent) = 2

(***************************************************************************)
(* Claims about extract_info_from_mac                                      *)
(***************************************************************************)
\* Two hexadecimal digits
IsOctet(part) ==
    /\ Len(part) = 2
    /\ part[1] \in HexDigits
    /\ part[2] \in HexDigits

OctetValue(part) == 16 * HexDigitValue(part[1]) + HexDigitValue(part[2])

\* Six colon-separated octets
SixOctets(mac) ==
    /\ Len(Split(mac)) = 6
    /\ \A i \in 1..6 : IsOctet(Split(mac)[i])

Returned == call.fn = "extract_info_from_mac" /\ call.pc = "returned"

\* C13: for a MAC of six colon-separated hexadecimal octets that starts with
\* the vendor prefix, extract_info_from_mac returns an identity whose model
\* is the value of octet 2, type_byte the value of octet 3, serial the value
\* of octets 4, 5, 6 read as one number, and mac the input;
\* B0:01:02:AA:BB:CC gives serial 11189196, model 1, type_byte 2.
C13_IdentityOfWellFormedMac ==
    (Returned /\ StartsWith(call.mac, MAC_PREFIX) /\ SixOctets(call.mac)) =>
        LET parts == Split(call.mac) IN
        /\ call.result # None
        /\ call.result.model = OctetValue(parts[2])
        /\ call.result.type_byte = OctetValue(parts[3])
        /\ call.result.serial =
              65536 * OctetValue(parts[4]) + 256 * OctetValue(parts[5])
                  + OctetValue(parts[6])
        /\ call.result.mac = call.mac
        /\ call.mac = MacA =>
              /\ call.result.serial = 11189196
              /\ call.result.model = 1
              /\ call.result.type_byte = 2

\* The call on B0:06:04:ff:FF:0f has returned serial 0xFFFF0F, model 6 and
\* type_byte 4
C13_Witness ==
    /\ Returned
    /\ call.mac = Join(<<<<"B", "0">>, <<"0", "6">>, <<"0", "4">>, <<"f", "f">>,
                         <<"F", "F">>, <<"0", "f">>>>)
    /\ call.result # None
    /\ call.result.serial = 16776975
    /\ call.result.model = 6
    /\ call.result.type_byte = 4

\* C14: for a MAC that does not start with the vendor prefix, the empty
\* string included, extract_info_from_mac returns None.
C14_NoneWithoutPrefix ==
    (Returned /\ ~StartsWith(call.mac, MAC_PREFIX)) => call.result = None

\* The call on C4:01:02:AA:BB:CC, six octets with another prefix, has
\* returned None
C14_Witness ==
    /\ Returned
    /\ call.mac = MacForeign
    /\ SixOctets(call.mac)
    /\ call.result = None

\* C15: extract_info_from_mac returns None, and raises nothing, for every
\* input that is not six colon-separated parts of two hexadecimal digits
\* each.
C15_NoneUnlessSixOctets ==
    (Returned /\ ~SixOctets(call.mac)) =>
        /\ call.result = None
        /\ raised = None

\* What the category resolution of the specification gives
Category(model, type_byte) ==
    IF model \in GAS_MODELS THEN DEVICE_TYPE_GAS
    ELSE IF model \in WATER_MODELS THEN DEVICE_TYPE_WATER
    ELSE IF type_byte \in {2, 3, 4} THEN DEVICE_TYPE_WATER
    ELSE DEVICE_TYPE_GAS

\* C16: the device_type of a returned identity is gas for a model of the gas
\* table, else water for a model of the water table, else water for
\* type_byte 2, 3 or 4 and gas for any other type_byte; it is always one of
\* the two, and a model of both tables is gas.
C16_CategoryResolution ==
    (Returned /\ call.result # None /\ SixOctets(call.mac)) =>
        LET model == OctetValue(Split(call.mac)[2])
            type_byte == OctetValue(Split(call.mac)[3])
        IN  /\ call.result.device_type \in {DEVICE_TYPE_GAS, DEVICE_TYPE_WATER}
            /\ call.result.device_type = Category(model, type_byte)
            /\ model \in 1..5 => call.result.device_type = DEVICE_TYPE_GAS
            /\ model = 6 => call.result.device_type = DEVICE_TYPE_WATER
            /\ model \in {7, 255} =>
                  call.result.device_type =
                      (IF type_byte \in {2, 3, 4} THEN DEVICE_TYPE_WATER
                       ELSE DEVICE_TYPE_GAS)

\* The call on B0:01:02:AA:BB:CC, a model of both tables with a type_byte of
\* the water fallback, has returned gas
C16_Witness ==
    /\ Returned
    /\ call.mac = MacA
    /\ call.result # None
    /\ call.result.model \in GAS_MODELS \cap WATER_MODELS
    /\ call.result.type_byte = 2
    /\ call.result.device_type = DEVICE_TYPE_GAS

(***************************************************************************)
(* Claims about parse_meter_data                                           *)
(***************************************************************************)
Decoded == call.fn = "parse_meter_data" /\ call.pc = "returned"

\* The payload under 0xFFFF of the call
Payload == call.manufacturer_data[MANUFACTURER_ID]

HasPayload == MANUFACTURER_ID \in DOMAIN call.manufacturer_data

Tagged(data) ==
    /\ Len(data) >= 4
    /\ SubSeq(data, 1, 4) = <<20, 255, 255, 255>>

\* C17: a payload built from a serial, a value, a raw temperature and a
\* sequence number at their offsets, with the marker and the separator, in
\* the 17-byte form or in the 21-byte form behind the tag 14 FF FF FF,
\* decodes to exactly that serial, value, sequence and raw temperature over
\* 100, whatever the other bytes hold.
C17_RoundTrip ==
    (Decoded /\ call.fields # None) =>
        /\ call.result # None
        /\ call.result.serial = call.fields.serial
        /\ call.result.value = call.fields.value
        /\ call.result.sequence = call.fields.sequence
        /\ call.result.temperature = [num |-> call.fields.temp_raw, den |-> 100]

\* The largest fields, in the 21-byte form with every other byte FF, have
\* come back from the decoder
C17_Witness ==
    /\ Decoded
    /\ call.fields = [sequence |-> 255, serial |-> 256 * 65536 - 1,
                      value |-> [hi |-> 65535, lo |-> 65535],
                      temp_raw |-> 65535]
    /\ Payload = <<20, 255, 255, 255, ELEHANT_MARKER, 255, 255, 255, 255, 255,
                    255, 255, 255, 255, 255, 255, 255, SEPARATOR, 255, 255, 255>>
    /\ call.result # None
    /\ call.result.value = [hi |-> 65535, lo |-> 65535]
    /\ call.result.serial = 16777215

C19_UntaggedIsNone ==
    (Decoded /\ HasPayload /\ Len(Payload) = 21 /\ ~Tagged(Payload)) =>
        call.result = None

\* 21 bytes with a marker and a separator at both offsets and no tag have
\* decoded to None
C19_Witness ==
    /\ Decoded
    /\ HasPayload
    /\ Payload = BothOffsets
    /\ Payload[1] = ELEHANT_MARKER /\ Payload[14] = SEPARATOR
    /\ Payload[5] = ELEHANT_MARKER /\ Payload[18] = SEPARATOR
    /\ call.result = None

\* The offset of a frame in a payload of accepted length and tag
LogicalOffset(data) == IF Len(data) = 21 THEN 4 ELSE 0

\* C20: for a payload of 17 bytes, or of 21 bytes with the tag, the decoder
\* returns None when the byte at logical offset 0 is not 0x80 or the byte at
\* logical offset 13 is not 0x7F; whenever it returns a reading both bytes
\* are in place.
C20_MarkerAndSeparator ==
    /\ (Decoded /\ HasPayload
          /\ (Len(Payload) = 17 \/ (Len(Payload) = 21 /\ Tagged(Payload)))
          /\ (\/ Payload[LogicalOffset(Payload) + 1] # 128
              \/ Payload[LogicalOffset(Payload) + 14] # 127))
       => call.result = None
    /\ (Decoded /\ call.result # None) =>
          /\ HasPayload
          /\ Payload[LogicalOffset(Payload) + 1] = 128
          /\ Payload[LogicalOffset(Payload) + 14] = 127

\* A tagged frame with its marker in place and 0x80 where the separator
\* belongs has decoded to None
C20_Witness ==
    /\ Decoded
    /\ HasPayload
    /\ Payload = [Sample21 EXCEPT ![18] = ELEHANT_MARKER]
    /\ Payload[5] = 128
    /\ call.result = None

\* The mapping with nothing but its 0xFFFF entry, if it has one
OnlyManufacturerId(manufacturer_data) ==
    [k \in DOMAIN manufacturer_data \cap {65535} |-> manufacturer_data[k]]

\* C21: decode uses only the payload under manufacturer identifier 0xFFFF.
\* A mapping that is empty or has no key 0xFFFF decodes to None, also when
\* another identifier carries a well-formed frame; what the other
\* identifiers carry never changes the result: it is the result for the
\* 0xFFFF entry alone, and a reading is the reading of the 0xFFFF payload.
C21_OnlyManufacturerId ==
    Decoded =>
        /\ 65535 \notin DOMAIN call.manufacturer_data => call.result = None
        /\ call.result = parse_meter_data(OnlyManufacturerId(call.manufacturer_data))
        /\ call.result # None =>
              call.result.raw_data = BytesHex(call.manufacturer_data[65535])

\* A mapping that holds well-formed frames under 0x0000 and 0x004C and a
\* rejected payload under 0xFFFF has decoded to None
C21_Witness ==
    /\ Decoded
    /\ call.result = None
    /\ DOMAIN call.manufacturer_data = {0, 76, 65535}
    /\ call.manufacturer_data[0] = Sample17
    /\ call.manufacturer_data[76] = Sample21
    /\ call.manufacturer_data[65535] = <<1, 2, 3>>

\* A complete reading: every field present and within the range of the
\* bytes it was read from
CompleteReading(r) ==
    /\ DOMAIN r = {"serial", "value", "temperature", "sequence", "raw_data"}
    /\ r.serial \in 0..(256 * 65536 - 1)
    /\ r.value.hi \in 0..65535 /\ r.value.lo \in 0..65535
    /\ r.temperature.num \in 0..65535 /\ r.temperature.den = 100
    /\ r.sequence \in 0..255

\* C22: the decoder is total.  For every mapping from manufacturer
\* identifiers to byte strings of any length and content it returns None or
\* a complete reading and lets no exception out, and every subscript it
\* evaluates (header bytes, marker, separator, sequence) is below the length
\* of the payload.
C22_DecoderIsTotal ==
    Decoded =>
        /\ raised = None
        /\ call.result = None \/ CompleteReading(call.result)
        /\ \A i \in 1..Len(call.reads) :
              /\ call.reads[i].index >= 0
              /\ call.reads[i].index < Len(call.manufacturer_data[65535])

\* A payload of 16 bytes that starts with the header and a marker, and would
\* have its separator at index 17, has decoded to None with no subscript
\* evaluated
C22_Witness ==
    /\ Decoded
    /\ 65535 \in DOMAIN call.manufacturer_data
    /\ Len(call.manufacturer_data[65535]) = 16
    /\ SubSeq(call.manufacturer_data[65535], 1, 5) = <<20, 255, 255, 255, 128>>
    /\ call.manufacturer_data[65535][16] = 127
    /\ call.reads = << >>
    /\ call.result = None
    /\ raised = None

(***************************************************************************)
(* Claims about the notification of coordinators                           *)
(***************************************************************************)
\* The observation this step has recorded
LastObserved == observed'[Len(observed')]

RecordedStep == Len(observed') = Len(observed) + 1

\* This step has sent one SIGNAL_NEW_DATA
Pushed == Len(dispatched') = Len(dispatched) + 1

\* C23: an update is pushed to a coordinator, and SIGNAL_NEW_DATA sent,
\* exactly when the payload of the observation decoded and a coordinator is
\* registered for the serial of its MAC.  The update carries the value and
\* the temperature of that reading and the RSSI of that advertisement.  An
\* observation that did not decode, or whose serial has no coordinator,
\* notifies nobody and is recorded all the same.
C23_PushIffDecodedAndConfigured ==
    [][/\ dispatched' # dispatched => (RecordedStep /\ Pushed)
       /\ RecordedStep =>
            LET o == LastObserved
                serial == o.mac_info.serial
                update == [serial |-> serial,
                           value |-> IF o.parsed = None THEN None ELSE o.parsed.value,
                           temperature |-> IF o.parsed = None THEN None
                                           ELSE o.parsed.temperature,
                           rssi |-> o.rssi]
            IN  /\ Pushed <=> (o.parsed # None /\ serial \in DOMAIN coordinators)
                /\ Pushed =>
                      /\ dispatched' = Append(dispatched, update)
                      /\ coordinators' = [coordinators EXCEPT ![serial] = update]
                /\ ~Pushed => UNCHANGED <<coordinators, dispatched>>
                /\ o.mac \in DOMAIN seen_devices'
                /\ seen_devices'[o.mac].packets =
                      (IF o.mac \in DOMAIN seen_devices
                       THEN seen_devices[o.mac].packets ELSE 0) + 1
      ]_vars

\* Meter A has a coordinator and meter B has none; a reading of A was pushed
\* with its value, temperature and RSSI, and after it a reading of B was
\* recorded without a signal
C23_Witness ==
    /\ DOMAIN coordinators = {11189196}
    /\ Len(observed) = 2
    /\ observed[1].mac = MacA /\ observed[1].parsed # None
    /\ observed[2].mac = MacB /\ observed[2].parsed # None
    /\ dispatched = <<[serial |-> 11189196, value |-> [hi |-> 0, lo |-> 1500],
                       temperature |-> [num |-> 2150, den |-> 100],
                       rssi |-> 0 - 60]>>
    /\ coordinators[11189196] = dispatched[1]
    /\ seen_devices[MacA].packets = 1
    /\ seen_devices[MacB].packets = 1

\* The serials the addresses of the two meters stand for (AA:BB:CC and
\* 00:00:2A)
SerialOfMac(mac) == IF mac = MacA THEN 11189196 ELSE 42

\* C24: the serial of the MAC and the serial of the payload are not checked
\* against each other.  An observation whose payload decodes to another
\* serial than its MAC gives is accepted: its value and temperature are
\* stored in the record of that MAC, and the update goes to the coordinator
\* of the MAC's serial, with that serial in it; the coordinator of the
\* payload's serial is left alone.  The serial of a record is always the
\* serial of its MAC.
C24_SerialsNotCrossValidated ==
    /\ [](\A mac \in DOMAIN seen_devices :
              seen_devices[mac].serial = SerialOfMac(mac))
    /\ [][(/\ RecordedStep
           /\ LastObserved.parsed # None
           /\ LastObserved.parsed.serial # SerialOfMac(LastObserved.mac)) =>
            LET o == LastObserved
                serial == SerialOfMac(o.mac)
                update == [serial |-> serial,
                           value |-> o.parsed.value,
                           temperature |-> o.parsed.temperature,
                           rssi |-> o.rssi]
            IN  /\ seen_devices'[o.mac].serial = serial
                /\ seen_devices'[o.mac].last_value = o.parsed.value
                /\ seen_devices'[o.mac].last_temperature = o.parsed.temperature
                /\ serial \in DOMAIN coordinators =>
                      /\ dispatched' = Append(dispatched, update)
                      /\ coordinators' = [coordinators EXCEPT ![serial] = update]
                /\ serial \notin DOMAIN coordinators =>
                      UNCHANGED <<coordinators, dispatched>>
      ]_vars

\* Both meters have a coordinator; an advertisement from the address of
\* meter A whose payload carries the serial of meter B (42) was recorded
\* under A, and its update, naming A, went to the coordinator of A while
\* the coordinator of B still has no data
C24_Witness ==
    /\ DOMAIN coordinators = {11189196, 42}
    /\ Len(observed) = 1
    /\ observed[1].mac = MacA
    /\ observed[1].parsed # None
    /\ observed[1].parsed.serial = 42
    /\ seen_devices[MacA].serial = 11189196
    /\ seen_devices[MacA].last_value = [hi |-> 0, lo |-> 77]
    /\ dispatched = <<[serial |-> 11189196, value |-> [hi |-> 0, lo |-> 77],
                       temperature |-> [num |-> 2000, den |-> 100],
                       rssi |-> 0 - 65]>>
    /\ coordinators[11189196] = dispatched[1]
    /\ coordinators[42] = << >>

(***************************************************************************)
(* Claims about the auto-discover scan                                     *)
(***************************************************************************)
\* How often the stop callback was handed to the event loop so far
StopCallbackCalls ==
    Cardinality({i \in 1..Len(loop_calls) : loop_calls[i] = "on_stop"})
    + Cardinality({i \in 1..Len(coroutines) : coroutines[i] = "on_stop"})

\* The whole seconds between start_time and the clock
WholeSecondsElapsed ==
    ((now * 10 + now_fraction) - (start_time.sec * 10 + start_time.tenths)) \div 10

\* C25: a started scan always ends.  With the clock running and the event
\* loop running what is ready, the loop ends by cancellation or at the first
\* pass at which the whole seconds elapsed exceed the timeout.  Ending by
\* timeout it adds the timeout line and hands the stop callback to the loop
\* exactly once; ending by cancellation it does not hand it over.
C25_ScanTerminates ==
    /\ (Len(tasks) > 0) ~> (\A t \in DOMAIN tasks : TaskDone(t))
    /\ [](/\ StopCallbackCalls <= 1
          /\ StopCallbackCalls = 1 <=>
                \E t \in DOMAIN tasks : tasks[t].state = "finished")
    /\ [][\A t \in DOMAIN tasks :
            /\ (tasks[t].state = "sleeping" /\ tasks'[t].state = "finished") =>
                  /\ WholeSecondsElapsed > ScanTimeout
                  /\ duration' = WholeSecondsElapsed
                  /\ log_messages'[Len(log_messages')].message =
                        [text |-> "timeout reached", timeout |-> ScanTimeout]
                  /\ StopCallbackCalls = 0
                  /\ StopCallbackCalls' = 1
            /\ (tasks[t].state = "sleeping" /\ tasks'[t].state = "sleeping"
                  /\ tasks'[t].wake_at # tasks[t].wake_at) =>
                  /\ WholeSecondsElapsed <= ScanTimeout
                  /\ duration' = WholeSecondsElapsed
            /\ (tasks[t].state # "cancelled" /\ tasks'[t].state = "cancelled") =>
                  /\ tasks[t].must_cancel
                  /\ StopCallbackCalls' = 0
         ]_vars

\* A scan started at a whole second with one device in the history has
\* passed a tick 10.5 seconds later, where it went on, and has ended by
\* timeout at the next one, 15 whole seconds after its start; the stop
\* callback was handed over once and the last log line is the timeout line
C25_Witness ==
    /\ Len(tasks) = 1
    /\ tasks[1].state = "finished"
    /\ start_time = [sec |-> 0, tenths |-> 0]
    /\ now_fraction = 5
    /\ duration = 15
    /\ StopCallbackCalls = 1
    /\ Len(discovered_devices) = 1
    /\ added[Len(added)].message.text = "timeout reached"
    /\ added[Len(added)].timestamp = 15

\* The scan loop has ended by timeout
TimedOut == \E t \in DOMAIN tasks : tasks[t].state = "finished"

\* async_configure was called with user_input {"timeout": True}
TimeoutConfigured ==
    \E i \in 1..Len(flow_inputs) :
        "timeout" \in DOMAIN flow_inputs[i] /\ flow_inputs[i].timeout

\* C26: when the scan reaches its timeout the flow is advanced without the
\* user: the body of on_stop eventually runs and calls async_configure with
\* {"timeout": True}, and the flow leaves the progress step.
C26_FlowAdvancesOnTimeout ==
    TimedOut ~> (TimeoutConfigured /\ flow_step # "auto_discover_progress")

\* The MACs of the devices of discovered_devices
DiscoveredMacs ==
    {discovered_devices[j]["mac"] : j \in 1..Len(discovered_devices)}

\* C27: within a scan only new devices are reported.  A pass of the scan
\* loop does not count or log as new a device whose MAC is already in
\* discovered_devices, whatever was recorded of it since.
C27_AnnouncedOnce ==
    [][\A i \in (Len(announced) + 1)..Len(announced') :
            announced'[i] \notin DiscoveredMacs]_vars

\* C29: stop_scan can be called in every state and raises nothing; the
\* call leaves is_scanning false and discovered_devices as it was.  From
\* that call to the next start_scan is_scanning stays false, so that a
\* second call does nothing, and no step changes discovered_devices; the
\* flow goes on to the selection with the list found so far.
C29_StopScanSafe ==
    /\ [](/\ ENABLED StopScan
          /\ stopped => ~is_scanning)
    /\ [][/\ StopScan => /\ ~is_scanning'
                         /\ discovered_devices' = discovered_devices
                         /\ raised' = None
          /\ stopped /\ stopped' => discovered_devices' = discovered_devices
          /\ (flow_step # "select_devices" /\ flow_step' = "select_devices") =>
                /\ flow_discovered' = discovered_devices
                /\ discovered_devices' = discovered_devices
         ]_vars

\* The scan found meter B with one packet recorded; the user stopped it,
\* the task was cancelled in its sleep, the flow went on with that list,
\* and a second packet of B recorded after the stop is not in the list
C29_Witness ==
    /\ stopped
    /\ scan_task = None
    /\ Len(tasks) = 1
    /\ tasks[1].state = "cancelled"
    /\ flow_step = "select_devices"
    /\ Len(discovered_devices) = 1
    /\ discovered_devices[1]["mac"] = MacB
    /\ discovered_devices[1]["packets"] = 1
    /\ flow_discovered = discovered_devices
    /\ MacB \in DOMAIN seen_devices
    /\ seen_devices[MacB].packets = 2
    /\ log_messages[Len(log_messages)].message = MessageStopped

\* The last n elements of a sequence, all of them when it has fewer
LastOf(seq, n) ==
    IF Len(seq) <= n THEN seq ELSE SubSeq(seq, Len(seq) - n + 1, Len(seq))

\* C28: the log buffer is bounded.  log_messages never holds more than
\* max_logs (8) lines, and they are the lines added last since start_scan,
\* in the order they were added; start_scan leaves the start message as the
\* only line.
C28_LogBounded ==
    /\ [](/\ Len(log_messages) <= MAX_LOGS
          /\ MAX_LOGS = 8
          /\ log_messages = LastOf(added, MAX_LOGS))
    /\ [][StartScan => log_messages' = <<LogLine(now, MessageStarted)>>]_vars

\* Ten lines were added since start_scan, the start message first; the
\* buffer holds the last eight, from the third on
C28_Witness ==
    /\ start_time # None
    /\ Len(added) = 10
    /\ added[1].message = MessageStarted
    /\ Len(log_messages) = 8
    /\ log_messages[1] = added[3]
    /\ log_messages[8] = added[10]
    /\ added[2] # added[3]

\* The entries that hold the meter of a serial
EntriesWith(serial) ==
    {i \in 1..Len(entries) :
        \E k \in 1..Len(entries[i].meters) : entries[i].meters[k] = serial}

\* C30: whatever flows were completed, in whatever order, a meter serial
\* is in at most one config entry.
C30_SerialInOneEntry ==
    \A serial \in ManualSerials : Cardinality(EntriesWith(serial)) <= 1

\* C31: whatever start() and stop() calls were made on the scanner, at
\* most one registration of the detection callback is active, and none
\* when the scanner holds no cancel function (before start() and after
\* stop()); in that state no step changes the history, and stop() changes
\* nothing but the registration.
C31_OneRegistration ==
    /\ [](/\ Cardinality(ActiveRegistrations) <= 1
          /\ cancel_callback = None => ActiveRegistrations = {})
    /\ [][/\ (cancel_callback = None /\ cancel_callback' = None) =>
                UNCHANGED <<seen_devices, seen_order, registrations>>
          /\ ScannerStop => UNCHANGED <<seen_devices, seen_order>>]_vars

\* The serials of the meters of a config entry
EntrySerials(i) == {entries[i].meters[k] : k \in 1..Len(entries[i].meters)}

\* C32: setting up an entry creates coordinators and sensors for the
\* meters of that entry only.  The coordinator registered for a meter of
\* another entry is not replaced, no entity is created for such a meter,
\* and the sensors that exist for it stay on the registered coordinator,
\* the one the scanner hands its updates to.
C32_SetupOfOwnMetersOnly ==
    [][\A i \in 1..Len(entries) :
          AsyncSetupEntry(i) =>
             /\ \A s \in DOMAIN coordinator_ids \ EntrySerials(i) :
                   coordinator_ids'[s] = coordinator_ids[s]
             /\ \A n \in (Len(entities) + 1)..Len(entities') :
                   entities'[n].serial \in EntrySerials(i)
             /\ \A n \in 1..Len(entities) :
                   (/\ entities[n].entry # i
                    /\ entities[n].coordinator =
                          coordinator_ids[entities[n].serial]) =>
                      entities'[n].coordinator =
                          coordinator_ids'[entities'[n].serial]
      ]_vars

\* The "meter_" configurations of the entries that stay set up are kept
RemainingMetersKept ==
    \A k \in 1..Len(meter_configs) :
        meter_configs[k].entry \in setups' =>
            \E j \in 1..Len(meter_configs') : meter_configs'[j] = meter_configs[k]

\* C33: hass.data holds a scanner from the first setup on, and that scanner
\* was started: it holds one active registration.  A later setup keeps it,
\* with its history.  Unloading an entry while another stays set up leaves
\* the scanner and its registration alone and keeps the "meter_"
\* configurations of the entries that stay; the scanner is stopped and
\* removed only by the unload that leaves no entry set up.
C33_OneScanner ==
    /\ [](/\ setup_calls > 0 /\ setups # {} => scanner_key
          /\ scanner_key => /\ cancel_callback # None
                            /\ Cardinality(ActiveRegistrations) = 1)
    /\ [][\A i \in 1..Len(entries) :
            /\ (AsyncSetupEntry(i) /\ scanner_key) =>
                  /\ scanner_key'
                  /\ UNCHANGED <<seen_devices, seen_order, registrations>>
            /\ AsyncUnloadEntry(i) =>
                  /\ setups' # {} =>
                        /\ UNCHANGED <<scanner_key, registrations>>
                        /\ RemainingMetersKept
                  /\ (scanner_key /\ ~scanner_key') =>
                        /\ setups' = {}
                        /\ ActiveRegistrations' = {}
         ]_vars

====
